---- MODULE Spec2Model ----
(***************************************************************************)
(* Traffic accounting of openwrt_netstats_go (src/main.go).                *)
(*                                                                         *)
(* The state is the two tables of network_stats.db (cumulative_stats and   *)
(* monthly_stats), the wall clock, the position of main's polling loop and *)
(* of the goroutine started for each router, and the table of             *)
(* dhcp_leases.db.  Every database function takes dbMutex on entry and     *)
(* releases it on return.  Spec, SpecAcct and SpecScenario take one call   *)
(* of resetMonthlyStats or updateTrafficStats as one step; SpecTasks and   *)
(* SpecLease follow the goroutines statement by statement, dbMutex and     *)
(* the open transaction included.                                          *)
(***************************************************************************)
EXTENDS Integers, Sequences, FiniteSets, TLC

\* ------------------------------------------------------------------ bounds
MaxVal == 1          \* byte counters reported by a gateway range over 0..MaxVal
MaxTotal == 2        \* updates that would push a monthly total above this are not taken
TicksPerMonth == 1   \* clock instants distinguished inside one calendar month
MaxMonth == 1        \* calendar months 0..MaxMonth of each modelled year
MaxYear == 1         \* years 0..MaxYear
MaxClients == 1      \* client records in one parsed WiFi dump
MaxCycles == 2       \* polling cycles main starts
MaxBatch == 2        \* lease records in one parsed lease dump
MaxRecords == 2      \* client records in one WiFi dump that is followed statement by statement
MaxLines == 3        \* lines of a dump handed to a parser
MaxRestarts == 1     \* restarts of the gateway whose interface counters are followed

\* ------------------------------------------------------- program constants
MonthsPerYear == 12
MAIN_WAN == "main_wan"

Routers == {"192.168.1.1", "192.168.2.1"}
Macs == {"aa:bb:cc:dd:ee:ff"}
EntityIDs == Macs \cup {MAIN_WAN}
Vals == 0..MaxVal

\* counter pairs the WAN dump reports in the model, and the client dump in the
\* model of the polling loop: both directions count alike
PollReadings == {<<v, v>> : v \in Vals}

VARIABLES
    cumulative_stats,  \* table: id -> [rx_bytes, tx_bytes]
    monthly_stats,     \* table: id -> [rx_bytes, tx_bytes, timestamp]
    now,               \* time.Now(), in clock ticks
    mainPc,            \* position of main's loop body
    taskPc,            \* position of the goroutine of each router
    clientsLeft,       \* client records of the parsed dump not yet applied
    cycle,             \* polling cycles started so far
    last,              \* history: the last database call and what it saw
    sumDelta,          \* history: per monthly row, deltas credited since its last zeroing
    lastObs,           \* history: per entity, the last successfully stored observation
    oldest,            \* history: per monthly row, month of the oldest traffic it holds
    deltasInCycle,     \* history: a delta was applied since the cycle started
    passedThisMonth,   \* history: a reset pass returned nil and no month boundary followed
    scriptPos,         \* observations of the four-observation scenario applied so far
    dhcp_leases,       \* table: the rows of dhcp_leases
    dbMutex,           \* who holds dbMutex
    call,              \* per goroutine: the database call it is in and that call's locals
    ev,                \* history: what the last statement of a goroutine did
    failed,            \* history: per goroutine, a signal of this cycle ended in an error
    setupFailed,       \* history: the last cycle whose setup failed, 0 when none has
    text,              \* the text handed to a parser
    parsed,            \* what the parser returned for it, and how far main has applied it
    source,            \* the byte counters of one gateway interface
    resetFailed,       \* history: the reset pass of the running cycle failed when a reset was due
    handles            \* the database handles main has opened and not closed, per database

vars == <<cumulative_stats, monthly_stats, now, mainPc, taskPc, clientsLeft, cycle, last,
          sumDelta, lastObs, oldest, deltasInCycle, passedThisMonth, scriptPos,
          dhcp_leases, dbMutex, call, ev, failed, setupFailed, text, parsed, source,
          resetFailed, handles>>

tables == <<cumulative_stats, monthly_stats>>
mainVars == <<mainPc, taskPc, clientsLeft, cycle>>
taskVars == <<dhcp_leases, dbMutex, call, ev, failed>>
sideVars == <<text, parsed, source, resetFailed, handles>>

\* ------------------------------------------------------------------- time
MonthIdx(t) == t \div TicksPerMonth
Year(t) == MonthIdx(t) \div MonthsPerYear
Month(t) == (MonthIdx(t) % MonthsPerYear) + 1

\* the instants of the calendar the model distinguishes
Instants ==
    {t \in 0..((MaxYear + 1) * MonthsPerYear * TicksPerMonth - 1) :
        Month(t) <= MaxMonth + 1}

\* time.Time.Format("2006-01-02 15:04:05"): year, month, rest of the text
Format(t) == <<Year(t), Month(t), t % TicksPerMonth>>

\* time.Parse of a stored timestamp, then .Year() and .Month()
ParseYear(str) == str[1]
ParseMonth(str) == str[2]

\* SQLite's text comparison of two formatted timestamps
TextLeq(a, b) ==
    \/ a[1] < b[1]
    \/ a[1] = b[1] /\ a[2] < b[2]
    \/ a[1] = b[1] /\ a[2] = b[2] /\ a[3] <= b[3]

NoTraffic == -1

\* ------------------------------------------------------ resetMonthlyStats
\* SELECT timestamp FROM monthly_stats ORDER BY timestamp DESC LIMIT 1
LastUpdateStr(tbl) ==
    CHOOSE s \in {tbl[id].timestamp : id \in DOMAIN tbl} :
        \A o \in {tbl[id].timestamp : id \in DOMAIN tbl} : TextLeq(o, s)

MonthOrYearChangedAlways(lastUpdateStr, t) == TRUE

MonthOrYearChangedMonthOnly(lastUpdateStr, t) ==
    ParseMonth(lastUpdateStr) # Month(t)

\* lastUpdateDate.Month() != currentDate.Month() || lastUpdateDate.Year() != currentDate.Year()
MonthOrYearChanged(lastUpdateStr, t) ==
    ParseMonth(lastUpdateStr) # Month(t) \/ ParseYear(lastUpdateStr) # Year(t)

\* the table has rows and the newest of them is of another month than t
ResetDue(tbl, t) ==
    Cardinality(DOMAIN tbl) # 0 /\ MonthOrYearChanged(LastUpdateStr(tbl), t)

\* UPDATE monthly_stats SET rx_bytes = 0, tx_bytes = 0, timestamp = ? when the
\* month or the year has changed
MonthlyAfterReset(tbl, t) ==
    IF Cardinality(DOMAIN tbl) = 0
    THEN tbl
    ELSE IF MonthOrYearChanged(LastUpdateStr(tbl), t)
         THEN [id \in DOMAIN tbl |->
                    [rx_bytes |-> 0, tx_bytes |-> 0, timestamp |-> Format(t)]]
         ELSE tbl

\* resetMonthlyStats returning nil
resetMonthlyStats ==
    /\ monthly_stats' = MonthlyAfterReset(monthly_stats, now)
    /\ UNCHANGED cumulative_stats

\* resetMonthlyStats returning an error: a query or the UPDATE failed
resetMonthlyStatsErr ==
    UNCHANGED tables

\* ----------------------------------------------------- updateTrafficStats
\* tx.QueryRow(SELECT rx_bytes, tx_bytes FROM cumulative_stats).Scan(&lastRX, &lastTX):
\* on sql.ErrNoRows and on any other error lastRX and lastTX keep Go's zero value.
\* The error of this Scan is overwritten by the COUNT query before it is tested,
\* so the test `err == sql.ErrNoRows` sees nil and the branch computing
\* Incremental against lastRX, lastTX runs in every call.
ScanLast(tbl, entityID, scanErr) ==
    IF entityID \in DOMAIN tbl /\ ~scanErr
    THEN <<tbl[entityID].rx_bytes, tbl[entityID].tx_bytes>>
    ELSE <<0, 0>>

IncrementalNoReset(new, lastv) == new - lastv

\* if newRX >= lastRX { newRX - lastRX } else { newRX }, and the same for TX
Incremental(new, lastv) == IF new >= lastv THEN new - lastv ELSE new

\* INSERT INTO monthly_stats (id, 0, 0, now) when SELECT COUNT(*) ... WHERE id = ? is 0
MonthlyInit(tbl, entityID, t) ==
    IF entityID \in DOMAIN tbl
    THEN tbl
    ELSE [x \in DOMAIN tbl \cup {entityID} |->
            IF x = entityID
            THEN [rx_bytes |-> 0, tx_bytes |-> 0, timestamp |-> Format(t)]
            ELSE tbl[x]]

MonthlyApplyOverwrite(tbl, entityID, incrementalRX, incrementalTX, t) ==
    [x \in DOMAIN tbl |->
        IF x = entityID
        THEN [rx_bytes |-> incrementalRX, tx_bytes |-> incrementalTX, timestamp |-> Format(t)]
        ELSE tbl[x]]

\* UPDATE monthly_stats SET rx_bytes = rx_bytes + ?, tx_bytes = tx_bytes + ?, timestamp = ?
MonthlyApply(tbl, entityID, incrementalRX, incrementalTX, t) ==
    [x \in DOMAIN tbl |->
        IF x = entityID
        THEN [rx_bytes |-> tbl[x].rx_bytes + incrementalRX,
              tx_bytes |-> tbl[x].tx_bytes + incrementalTX,
              timestamp |-> Format(t)]
        ELSE tbl[x]]

CumulativeUpsertMax(tbl, entityID, newRX, newTX) ==
    [x \in DOMAIN tbl \cup {entityID} |->
        IF x = entityID
        THEN IF entityID \in DOMAIN tbl
             THEN [rx_bytes |-> IF newRX >= tbl[x].rx_bytes THEN newRX ELSE tbl[x].rx_bytes,
                   tx_bytes |-> IF newTX >= tbl[x].tx_bytes THEN newTX ELSE tbl[x].tx_bytes]
             ELSE [rx_bytes |-> newRX, tx_bytes |-> newTX]
        ELSE tbl[x]]

\* INSERT OR REPLACE INTO cumulative_stats (id, rx_bytes, tx_bytes)
CumulativeUpsert(tbl, entityID, newRX, newTX) ==
    [x \in DOMAIN tbl \cup {entityID} |->
        IF x = entityID THEN [rx_bytes |-> newRX, tx_bytes |-> newTX] ELSE tbl[x]]

DeltaFirstZero(cum, entityID, newRX, newTX, scanErr) ==
    IF entityID \in DOMAIN cum
    THEN <<Incremental(newRX, ScanLast(cum, entityID, scanErr)[1]),
           Incremental(newTX, ScanLast(cum, entityID, scanErr)[2])>>
    ELSE <<0, 0>>

\* <<incrementalRX, incrementalTX>> of one call
Delta(cum, entityID, newRX, newTX, scanErr) ==
    <<Incremental(newRX, ScanLast(cum, entityID, scanErr)[1]),
      Incremental(newTX, ScanLast(cum, entityID, scanErr)[2])>>

\* the monthly table one committed call leaves
MonthlyAfterUpdate(cum, mon, entityID, newRX, newTX, scanErr, t) ==
    LET inc == Delta(cum, entityID, newRX, newTX, scanErr)
    IN  MonthlyApply(MonthlyInit(mon, entityID, t), entityID, inc[1], inc[2], t)

\* updateTrafficStats returning nil (the transaction committed).  scanErr: the
\* SELECT on cumulative_stats failed with an error other than sql.ErrNoRows.
updateTrafficStats(entityID, newRX, newTX, scanErr) ==
    /\ scanErr => entityID \in DOMAIN cumulative_stats
    /\ monthly_stats' = MonthlyAfterUpdate(cumulative_stats, monthly_stats, entityID,
                                           newRX, newTX, scanErr, now)
    /\ cumulative_stats' = CumulativeUpsert(cumulative_stats, entityID, newRX, newTX)

\* updateTrafficStats returning an error: Begin, the COUNT query, a statement or
\* Commit failed and the deferred tx.Rollback() discards what the call wrote
updateTrafficStatsErr(entityID) ==
    UNCHANGED tables

\* ---------------------------------------------------------------- dbMutex
\* the zero value of sync.Mutex
Unlocked == "unlocked"

\* a goroutine that is in no database call
NoCall == [op |-> "none"]

\* no parser has run yet
NoResult == [fn |-> "none", done |-> FALSE]

CanLockAlways(m) == TRUE

\* mutex.Lock() returns only while no goroutine holds the mutex
CanLock(m) == m = Unlocked

UnlockNever(m) == m

\* defer mutex.Unlock()
Unlock(m) == Unlocked

\* the goroutines that are between mutex.Lock() and the return of a database call
InCall == {r \in Routers : call[r].op # "none"}

UnlockAtOnce(holder) == Unlocked

\* mutex.Lock(); defer mutex.Unlock(): the caller holds the mutex until it returns
LockDeferUnlock(holder) == holder

\* ------------------------------------- updateTrafficStats, statement by statement
RollbackKeepsWrites(committed, written) == written

\* defer tx.Rollback(): what the transaction wrote is discarded
Rollback(committed, written) == committed

\* mutex.Lock(); defer mutex.Unlock()
UpdLock(r, entityID, newRX, newTX) ==
    /\ call[r].op = "none"
    /\ CanLock(dbMutex)
    /\ dbMutex' = LockDeferUnlock(r)
    /\ call' = [call EXCEPT ![r] = [op |-> "update", pc |-> "begin", id |-> entityID,
                                     newRX |-> newRX, newTX |-> newTX]]
    /\ ev' = [op |-> "update", task |-> r, outcome |-> "locked", id |-> entityID]
    /\ UNCHANGED tables

\* db.Begin(); tx.QueryRow(SELECT ... FROM cumulative_stats).Scan(&lastRX, &lastTX);
\* db.QueryRow(SELECT COUNT(*) FROM monthly_stats WHERE id = ?).Scan(&monthlyCount)
UpdRead(r, scanErr) ==
    /\ call[r].op = "update" /\ call[r].pc = "begin"
    /\ scanErr => call[r].id \in DOMAIN cumulative_stats
    /\ call' = [call EXCEPT ![r] =
                   [op |-> "update", pc |-> "insert", id |-> call[r].id,
                    newRX |-> call[r].newRX, newTX |-> call[r].newTX,
                    scanErr |-> scanErr,
                    lastRX |-> ScanLast(cumulative_stats, call[r].id, scanErr)[1],
                    lastTX |-> ScanLast(cumulative_stats, call[r].id, scanErr)[2],
                    monthlyCount |-> IF call[r].id \in DOMAIN monthly_stats THEN 1 ELSE 0]]
    /\ ev' = [op |-> "update", task |-> r, outcome |-> "read", id |-> call[r].id]
    /\ UNCHANGED <<tables, dbMutex>>

UpdInsertOutsideTx(r) ==
    /\ call[r].op = "update" /\ call[r].pc = "insert"
    /\ monthly_stats' = IF call[r].monthlyCount = 0
                         THEN MonthlyInit(monthly_stats, call[r].id, now)
                         ELSE monthly_stats
    /\ call' = [call EXCEPT ![r] =
                   [op |-> "update", pc |-> "write", id |-> call[r].id,
                    newRX |-> call[r].newRX, newTX |-> call[r].newTX,
                    scanErr |-> call[r].scanErr,
                    lastRX |-> call[r].lastRX, lastTX |-> call[r].lastTX,
                    monthlyCount |-> call[r].monthlyCount,
                    txMonthly |-> monthly_stats']]
    /\ ev' = [op |-> "update", task |-> r, outcome |-> "insert", id |-> call[r].id]
    /\ UNCHANGED <<cumulative_stats, dbMutex>>

\* if monthlyCount == 0 { tx.Exec(INSERT INTO monthly_stats ...) }: the row is
\* written inside the open transaction
UpdInsert(r) ==
    /\ call[r].op = "update" /\ call[r].pc = "insert"
    /\ call' = [call EXCEPT ![r] =
                   [op |-> "update", pc |-> "write", id |-> call[r].id,
                    newRX |-> call[r].newRX, newTX |-> call[r].newTX,
                    scanErr |-> call[r].scanErr,
                    lastRX |-> call[r].lastRX, lastTX |-> call[r].lastTX,
                    monthlyCount |-> call[r].monthlyCount,
                    txMonthly |-> IF call[r].monthlyCount = 0
                                  THEN MonthlyInit(monthly_stats, call[r].id, now)
                                  ELSE monthly_stats]]
    /\ ev' = [op |-> "update", task |-> r, outcome |-> "insert", id |-> call[r].id]
    /\ UNCHANGED <<tables, dbMutex>>

\* the deltas from lastRX and lastTX, UPDATE monthly_stats, INSERT OR REPLACE INTO
\* cumulative_stats, return tx.Commit(), then the deferred mutex.Unlock()
UpdCommit(r) ==
    /\ call[r].op = "update" /\ call[r].pc = "write"
    /\ LET c == call[r]
           incrementalRX == Incremental(c.newRX, c.lastRX)
           incrementalTX == Incremental(c.newTX, c.lastTX)
       IN  /\ monthly_stats' = MonthlyApply(c.txMonthly, c.id, incrementalRX, incrementalTX, now)
           /\ cumulative_stats' = CumulativeUpsert(cumulative_stats, c.id, c.newRX, c.newTX)
           /\ ev' = [op |-> "update", task |-> r, outcome |-> "committed", id |-> c.id,
                      newRX |-> c.newRX, newTX |-> c.newTX, scanErr |-> c.scanErr,
                      lastRX |-> c.lastRX, lastTX |-> c.lastTX,
                      monthlyCount |-> c.monthlyCount,
                      incrementalRX |-> incrementalRX, incrementalTX |-> incrementalTX]
    /\ dbMutex' = Unlock(dbMutex)
    /\ call' = [call EXCEPT ![r] = NoCall]

UpdFailsKeepsLock(r) ==
    /\ call[r].op = "update"
    /\ monthly_stats' = IF call[r].pc = "write"
                         THEN Rollback(monthly_stats, call[r].txMonthly)
                         ELSE monthly_stats
    /\ UNCHANGED cumulative_stats
    /\ dbMutex' = dbMutex
    /\ call' = [call EXCEPT ![r] = NoCall]
    /\ ev' = [op |-> "update", task |-> r, outcome |-> "error", id |-> call[r].id,
               pc |-> call[r].pc, monthlyCount |-> IF call[r].pc = "begin" THEN 0
                                                   ELSE call[r].monthlyCount]

\* Begin, the COUNT query, the INSERT, the UPDATE, the upsert or Commit failed:
\* the function returns the error, the deferred tx.Rollback() and mutex.Unlock() run
UpdFails(r) ==
    /\ call[r].op = "update"
    /\ monthly_stats' = IF call[r].pc = "write"
                         THEN Rollback(monthly_stats, call[r].txMonthly)
                         ELSE monthly_stats
    /\ UNCHANGED cumulative_stats
    /\ dbMutex' = Unlock(dbMutex)
    /\ call' = [call EXCEPT ![r] = NoCall]
    /\ ev' = [op |-> "update", task |-> r, outcome |-> "error", id |-> call[r].id,
               pc |-> call[r].pc, monthlyCount |-> IF call[r].pc = "begin" THEN 0
                                                   ELSE call[r].monthlyCount]

\* ------------------------------------------------------- upsertDHCPLeases
Lease(mac, leaseEnd, ip, host) ==
    [MACAddress |-> mac, LeaseEndTime |-> leaseEnd, IPAddress |-> ip,
     Hostname |-> host, ClientID |-> mac]

\* the []DHCPLease slices parseDHCPLeases returns, the empty one included, over
\* the records the lease dumps hold in the model: two leases of one address
\* that differ in every other field but the client id, and one of another
Batches ==
    LET Leases == {Lease("aa:bb:cc:dd:ee:ff", 1, "192.168.1.10", "laptop"),
                   Lease("aa:bb:cc:dd:ee:ff", 2, "192.168.2.10", "Unknown"),
                   Lease("11:22:33:44:55:66", 1, "192.168.1.11", "phone")}
    IN  UNION {[1..n -> Leases] : n \in 0..MaxBatch}

\* the row one stmt.Exec writes
LeaseRow(lease, timestamp) ==
    [mac_address |-> lease.MACAddress, lease_end_time |-> lease.LeaseEndTime,
     ip_address |-> lease.IPAddress, hostname |-> lease.Hostname,
     client_id |-> lease.ClientID, timestamp |-> timestamp]

InsertKeepingOld(tbl, row) == tbl \cup {row}

\* INSERT OR REPLACE INTO dhcp_leases: mac_address is the PRIMARY KEY
InsertOrReplace(tbl, row) ==
    {x \in tbl : x.mac_address # row.mac_address} \cup {row}

IsEmptyBatchNever(leases) == FALSE

\* if len(leases) == 0 { return nil }
IsEmptyBatch(leases) == Len(leases) = 0

StampOfExec(c, t) == Format(t)

\* timestamp := time.Now().Format(...) is taken once, before the loop over the leases
StampOfBatch(c, t) == c.timestamp

\* upsertDHCPLeases called with no lease: it returns nil before mutex.Lock()
UpsertEmpty(r, leases) ==
    /\ call[r].op = "none"
    /\ IsEmptyBatch(leases)
    /\ ev' = [op |-> "upsert", task |-> r, outcome |-> "empty", leases |-> leases]
    /\ UNCHANGED <<dhcp_leases, dbMutex, call>>

\* mutex.Lock()
UpsertLock(r, leases) ==
    /\ call[r].op = "none"
    /\ ~IsEmptyBatch(leases)
    /\ CanLock(dbMutex)
    /\ dbMutex' = LockDeferUnlock(r)
    /\ call' = [call EXCEPT ![r] = [op |-> "upsert", pc |-> "begin", leases |-> leases]]
    /\ ev' = [op |-> "upsert", task |-> r, outcome |-> "locked", leases |-> leases]
    /\ UNCHANGED dhcp_leases

\* db.Begin(), tx.Prepare(INSERT OR REPLACE ...), timestamp := time.Now().Format(...)
UpsertBegin(r) ==
    /\ call[r].op = "upsert" /\ call[r].pc = "begin"
    /\ call' = [call EXCEPT ![r] = [op |-> "upsert", pc |-> "exec", leases |-> call[r].leases,
                                     i |-> 1, timestamp |-> Format(now),
                                     view |-> dhcp_leases]]
    /\ ev' = [op |-> "upsert", task |-> r, outcome |-> "begun", leases |-> call[r].leases]
    /\ UNCHANGED <<dhcp_leases, dbMutex>>

\* for _, lease := range leases { stmt.Exec(lease..., timestamp) }: the row is
\* written inside the open transaction
UpsertExec(r) ==
    /\ call[r].op = "upsert" /\ call[r].pc = "exec"
    /\ call[r].i <= Len(call[r].leases)
    /\ call' = [call EXCEPT ![r].i = @ + 1,
                            ![r].view = InsertOrReplace(@,
                                LeaseRow(call[r].leases[call[r].i], StampOfBatch(call[r], now)))]
    /\ ev' = [op |-> "upsert", task |-> r, outcome |-> "exec", leases |-> call[r].leases]
    /\ UNCHANGED <<dhcp_leases, dbMutex>>

\* return tx.Commit(), then the deferred mutex.Unlock()
UpsertCommit(r) ==
    /\ call[r].op = "upsert" /\ call[r].pc = "exec"
    /\ call[r].i > Len(call[r].leases)
    /\ dhcp_leases' = call[r].view
    /\ dbMutex' = Unlock(dbMutex)
    /\ call' = [call EXCEPT ![r] = NoCall]
    /\ ev' = [op |-> "upsert", task |-> r, outcome |-> "committed", leases |-> call[r].leases,
               timestamp |-> call[r].timestamp]

\* Begin, Prepare, a stmt.Exec or Commit failed: the function returns the error,
\* the deferred tx.Rollback() discards the rows written so far, mutex.Unlock()
UpsertFails(r) ==
    /\ call[r].op = "upsert"
    /\ dbMutex' = Unlock(dbMutex)
    /\ call' = [call EXCEPT ![r] = NoCall]
    /\ ev' = [op |-> "upsert", task |-> r, outcome |-> "error", leases |-> call[r].leases]
    /\ UNCHANGED dhcp_leases

\* ------------------------------------------------------ history variables
\* what the monthly row of id held before the step (0 when it had no row)
PreTotal(id) ==
    IF id \in DOMAIN monthly_stats
    THEN <<monthly_stats[id].rx_bytes, monthly_stats[id].tx_bytes>>
    ELSE <<0, 0>>

\* the reset pass zeroed the table in this step
Fired == monthly_stats' # monthly_stats

\* the model follows a monthly total up to MaxTotal
WithinBounds(id) ==
    /\ monthly_stats'[id].rx_bytes <= MaxTotal
    /\ monthly_stats'[id].tx_bytes <= MaxTotal

\* the deltas the calls computed for each row, cleared when the reset pass zeroes
\* the table, and the last observation a committed call was given
CreditUpdate(id, newRX, newTX, scanErr) ==
    LET inc == Delta(cumulative_stats, id, newRX, newTX, scanErr)
    IN  /\ sumDelta' = [x \in DOMAIN sumDelta \cup {id} |->
                          IF x = id
                          THEN IF id \in DOMAIN sumDelta
                               THEN <<sumDelta[id][1] + inc[1], sumDelta[id][2] + inc[2]>>
                               ELSE inc
                          ELSE sumDelta[x]]
        /\ lastObs' = [x \in DOMAIN lastObs \cup {id} |->
                          IF x = id THEN <<newRX, newTX>> ELSE lastObs[x]]

CreditReset ==
    /\ sumDelta' = IF Fired THEN [x \in DOMAIN sumDelta |-> <<0, 0>>] ELSE sumDelta
    /\ UNCHANGED lastObs

\* the month in which the oldest traffic still held by each row was added
AgeUpdate(id) ==
    oldest' = [x \in DOMAIN monthly_stats' |->
                  IF x # id
                  THEN oldest[x]
                  ELSE IF id \in DOMAIN oldest /\ oldest[id] # NoTraffic
                       THEN oldest[id]
                       ELSE IF <<monthly_stats'[id].rx_bytes, monthly_stats'[id].tx_bytes>>
                                    # PreTotal(id)
                            THEN MonthIdx(now)
                            ELSE NoTraffic]

\* ------------------------------------------------------------------ main
MainStepsSpawnFirst == <<"setup", "spawn", "reset", "wait", "sleep">>

\* the loop body of main: setup, reset pass, goroutines, wg.Wait(), time.Sleep
MainSteps == <<"setup", "reset", "spawn", "wait", "sleep">>

NextMainPc(pc) ==
    LET i == CHOOSE k \in 1..Len(MainSteps) : MainSteps[k] = pc
    IN  MainSteps[IF i = Len(MainSteps) THEN 1 ELSE i + 1]

Init ==
    /\ cumulative_stats = <<>>
    /\ monthly_stats = <<>>
    /\ now = 0
    /\ mainPc = "setup"
    /\ taskPc = [r \in Routers |-> "idle"]
    /\ clientsLeft = [r \in Routers |-> 0]
    /\ cycle = 1
    /\ last = [op |-> "none", err |-> FALSE]
    /\ sumDelta = <<>>
    /\ lastObs = <<>>
    /\ oldest = <<>>
    /\ deltasInCycle = FALSE
    /\ passedThisMonth = FALSE
    /\ scriptPos = 0
    /\ dhcp_leases = {}
    /\ dbMutex = Unlocked
    /\ call = [r \in Routers |-> NoCall]
    /\ ev = [op |-> "none"]
    /\ failed = [r \in Routers |-> FALSE]
    /\ setupFailed = 0
    /\ text = <<>>
    /\ parsed = NoResult
    /\ source = [rx |-> 0, tx |-> 0, countedRX |-> 0, countedTX |-> 0, restarts |-> 0]
    /\ resetFailed = FALSE
    /\ handles = [stats |-> 0, dhcp |-> 0]

\* history kept by the specification of the polling loop
pollHist == <<last, sumDelta, lastObs, oldest, deltasInCycle>>
otherHist == <<passedThisMonth, scriptPos, taskVars, setupFailed, sideVars>>

\* wall-clock time passes
ClockAdvance ==
    /\ \E t \in Instants : t > now /\ now' = t
    /\ UNCHANGED <<tables, mainVars, pollHist, otherHist>>

\* loadConfig, connectDB x2, setupStatsDB, setupDHCPDB all succeeded
SetupOk ==
    /\ mainPc = "setup"
    /\ mainPc' = NextMainPc("setup")
    /\ deltasInCycle' = FALSE
    /\ UNCHANGED <<tables, now, taskPc, clientsLeft, cycle, last, sumDelta, lastObs,
                   oldest, passedThisMonth, scriptPos, taskVars, setupFailed, sideVars>>

SetupFailsGoesOn ==
    /\ mainPc = "setup"
    /\ mainPc' = NextMainPc("setup")
    /\ deltasInCycle' = FALSE
    /\ setupFailed' = cycle
    /\ UNCHANGED <<tables, now, taskPc, clientsLeft, cycle, last, sumDelta, lastObs,
                   oldest, passedThisMonth, scriptPos, taskVars, sideVars>>

\* one of them failed: time.Sleep(30 * time.Minute); continue
SetupFails ==
    /\ mainPc = "setup"
    /\ mainPc' = "sleep"
    /\ deltasInCycle' = FALSE
    /\ setupFailed' = cycle
    /\ UNCHANGED <<tables, now, taskPc, clientsLeft, cycle, last, sumDelta, lastObs,
                   oldest, passedThisMonth, scriptPos, taskVars, sideVars>>

ResetOk ==
    /\ mainPc = "reset"
    /\ resetMonthlyStats
    /\ mainPc' = NextMainPc("reset")
    /\ CreditReset
    /\ oldest' = IF Fired THEN [x \in DOMAIN monthly_stats' |-> NoTraffic] ELSE oldest
    /\ last' = [op |-> "reset", err |-> FALSE, month |-> MonthIdx(now)]
    /\ UNCHANGED <<now, taskPc, clientsLeft, cycle, deltasInCycle, otherHist>>

\* the error is printed and the cycle goes on
ResetFails ==
    /\ mainPc = "reset"
    /\ resetMonthlyStatsErr
    /\ mainPc' = NextMainPc("reset")
    /\ last' = [op |-> "reset", err |-> TRUE]
    /\ UNCHANGED <<now, taskPc, clientsLeft, cycle, sumDelta, lastObs, oldest,
                   deltasInCycle, otherHist>>

\* for routerIP, urls := range routers { wg.Add(1); go func ... }
SpawnTasks ==
    /\ mainPc = "spawn"
    /\ mainPc' = NextMainPc("spawn")
    /\ taskPc' = [r \in Routers |-> "ap"]
    /\ UNCHANGED <<tables, now, clientsLeft, cycle, pollHist, otherHist>>

CycleCompleteNoWait ==
    /\ mainPc = "wait"
    /\ mainPc' = NextMainPc("wait")
    /\ resetFailed' = FALSE
    /\ UNCHANGED <<tables, now, taskPc, clientsLeft, cycle, pollHist, passedThisMonth,
                   scriptPos, taskVars, setupFailed, text, parsed, source, handles>>

\* wg.Wait() returns when every goroutine has called wg.Done()
CycleComplete ==
    /\ mainPc = "wait"
    /\ \A r \in Routers : taskPc[r] = "done"
    /\ mainPc' = NextMainPc("wait")
    /\ taskPc' = [r \in Routers |-> "idle"]
    /\ resetFailed' = FALSE
    /\ UNCHANGED <<tables, now, clientsLeft, cycle, pollHist, passedThisMonth, scriptPos,
                   taskVars, setupFailed, text, parsed, source, handles>>

\* time.Sleep(30 * time.Minute) is over, the loop starts again
Sleep ==
    /\ mainPc = "sleep"
    /\ cycle < MaxCycles
    /\ mainPc' = NextMainPc("sleep")
    /\ cycle' = cycle + 1
    /\ UNCHANGED <<tables, now, taskPc, clientsLeft, pollHist, otherHist>>

\* --------------------------------------------------- the router goroutine
\* AP stats: URL empty, fetch failed, or the dump holds no client record
FetchAPNone(r) ==
    /\ taskPc[r] = "ap"
    /\ taskPc' = [taskPc EXCEPT ![r] = "wan"]
    /\ UNCHANGED <<tables, now, mainPc, clientsLeft, cycle, pollHist, otherHist>>

\* AP stats fetched and parsed into n > 0 client records
FetchAPClients(r) ==
    /\ taskPc[r] = "ap"
    /\ \E n \in 1..MaxClients : clientsLeft' = [clientsLeft EXCEPT ![r] = n]
    /\ taskPc' = [taskPc EXCEPT ![r] = "clients"]
    /\ UNCHANGED <<tables, now, mainPc, cycle, pollHist, otherHist>>

AfterClient(r) ==
    /\ clientsLeft' = [clientsLeft EXCEPT ![r] = @ - 1]
    /\ taskPc' = [taskPc EXCEPT ![r] = IF clientsLeft[r] = 1 THEN "wan" ELSE "clients"]

\* what a committed updateTrafficStats leaves in the history
Committed(id, newRX, newTX, scanErr) ==
    /\ WithinBounds(id)
    /\ CreditUpdate(id, newRX, newTX, scanErr)
    /\ AgeUpdate(id)
    /\ deltasInCycle' = TRUE
    /\ last' = [op |-> "update", err |-> FALSE, id |-> id]

RolledBack(id) ==
    /\ last' = [op |-> "update", err |-> TRUE, id |-> id]
    /\ UNCHANGED <<sumDelta, lastObs, oldest, deltasInCycle>>

\* for _, client := range clients { updateTrafficStats(..., client.MACAddress, ...) }
UpdateClient(r) ==
    /\ taskPc[r] = "clients"
    /\ \E mac \in Macs, client \in PollReadings, scanErr \in BOOLEAN :
            /\ updateTrafficStats(mac, client[1], client[2], scanErr)
            /\ Committed(mac, client[1], client[2], scanErr)
    /\ AfterClient(r)
    /\ UNCHANGED <<now, mainPc, cycle, otherHist>>

UpdateClientFails(r) ==
    /\ taskPc[r] = "clients"
    /\ \E mac \in Macs : updateTrafficStatsErr(mac) /\ RolledBack(mac)
    /\ AfterClient(r)
    /\ UNCHANGED <<now, mainPc, cycle, otherHist>>

\* WAN stats: URL empty, fetch failed, or the pattern was not found
FetchWANNone(r) ==
    /\ taskPc[r] = "wan"
    /\ taskPc' = [taskPc EXCEPT ![r] = "dhcp"]
    /\ UNCHANGED <<tables, now, mainPc, clientsLeft, cycle, pollHist, otherHist>>

\* WAN stats fetched and parsed
FetchWANData(r) ==
    /\ taskPc[r] = "wan"
    /\ taskPc' = [taskPc EXCEPT ![r] = "wanUpdate"]
    /\ UNCHANGED <<tables, now, mainPc, clientsLeft, cycle, pollHist, otherHist>>

\* updateTrafficStats(connStats, &dbMutex, "main_wan", wan.RXBytes, wan.TXBytes)
UpdateWAN(r) ==
    /\ taskPc[r] = "wanUpdate"
    /\ \E wan \in PollReadings, scanErr \in BOOLEAN :
            /\ updateTrafficStats(MAIN_WAN, wan[1], wan[2], scanErr)
            /\ Committed(MAIN_WAN, wan[1], wan[2], scanErr)
    /\ taskPc' = [taskPc EXCEPT ![r] = "dhcp"]
    /\ UNCHANGED <<now, mainPc, clientsLeft, cycle, otherHist>>

UpdateWANFails(r) ==
    /\ taskPc[r] = "wanUpdate"
    /\ updateTrafficStatsErr(MAIN_WAN)
    /\ RolledBack(MAIN_WAN)
    /\ taskPc' = [taskPc EXCEPT ![r] = "dhcp"]
    /\ UNCHANGED <<now, mainPc, clientsLeft, cycle, otherHist>>

\* DHCP leases go to dhcp_leases.db; the goroutine then calls wg.Done()
FetchDHCP(r) ==
    /\ taskPc[r] = "dhcp"
    /\ taskPc' = [taskPc EXCEPT ![r] = "done"]
    /\ UNCHANGED <<tables, now, mainPc, clientsLeft, cycle, pollHist, otherHist>>

Next ==
    \/ ClockAdvance
    \/ SetupOk
    \/ SetupFails
    \/ ResetOk
    \/ ResetFails
    \/ SpawnTasks
    \/ CycleComplete
    \/ Sleep
    \/ \E r \in Routers : FetchAPNone(r)
    \/ \E r \in Routers : FetchAPClients(r)
    \/ \E r \in Routers : UpdateClient(r)
    \/ \E r \in Routers : UpdateClientFails(r)
    \/ \E r \in Routers : FetchWANNone(r)
    \/ \E r \in Routers : FetchWANData(r)
    \/ \E r \in Routers : UpdateWAN(r)
    \/ \E r \in Routers : UpdateWANFails(r)
    \/ \E r \in Routers : FetchDHCP(r)

Spec == Init /\ [][Next]_vars

\* ------------------------------------- the polling loop and its failed resets
\* The same loop, with the history of a reset pass that returned an error.
ResetFailsAborts ==
    /\ mainPc = "reset"
    /\ resetMonthlyStatsErr
    /\ mainPc' = "sleep"
    /\ last' = [op |-> "reset", err |-> TRUE]
    /\ resetFailed' = ResetDue(monthly_stats, now)
    /\ UNCHANGED <<now, taskPc, clientsLeft, cycle, sumDelta, lastObs, oldest,
                   deltasInCycle, passedThisMonth, scriptPos, taskVars, setupFailed,
                   text, parsed, source, handles>>

\* if err := resetMonthlyStats(connStats, &dbMutex); err != nil { fmt.Printf(...) }
ResetFailsNoted ==
    /\ mainPc = "reset"
    /\ resetMonthlyStatsErr
    /\ mainPc' = NextMainPc("reset")
    /\ last' = [op |-> "reset", err |-> TRUE]
    /\ resetFailed' = ResetDue(monthly_stats, now)
    /\ UNCHANGED <<now, taskPc, clientsLeft, cycle, sumDelta, lastObs, oldest,
                   deltasInCycle, passedThisMonth, scriptPos, taskVars, setupFailed,
                   text, parsed, source, handles>>

NextCycle ==
    \/ ClockAdvance
    \/ SetupOk
    \/ SetupFails
    \/ ResetOk
    \/ ResetFailsNoted
    \/ SpawnTasks
    \/ CycleComplete
    \/ Sleep
    \/ \E r \in Routers : FetchAPNone(r)
    \/ \E r \in Routers : FetchAPClients(r)
    \/ \E r \in Routers : UpdateClient(r)
    \/ \E r \in Routers : UpdateClientFails(r)
    \/ \E r \in Routers : FetchWANNone(r)
    \/ \E r \in Routers : FetchWANData(r)
    \/ \E r \in Routers : UpdateWAN(r)
    \/ \E r \in Routers : UpdateWANFails(r)
    \/ \E r \in Routers : FetchDHCP(r)

SpecCycle == Init /\ [][NextCycle]_vars

\* ---------------------------------------- the polling loop and its handles
\* The same loop, with the *sql.DB handles that connectDB returns. Both Close
\* calls are deferred inside the for loop of main: a deferred call runs when the
\* function returns, and main does not return, so no step closes a handle.

\* loadConfig, connectDB x2, setupStatsDB, setupDHCPDB all succeeded;
\* defer connStats.Close(), defer connDHCP.Close()
SetupOpens ==
    /\ mainPc = "setup"
    /\ mainPc' = NextMainPc("setup")
    /\ deltasInCycle' = FALSE
    /\ handles' = [stats |-> handles.stats + 1, dhcp |-> handles.dhcp + 1]
    /\ UNCHANGED <<tables, now, taskPc, clientsLeft, cycle, last, sumDelta, lastObs,
                   oldest, passedThisMonth, scriptPos, taskVars, setupFailed,
                   text, parsed, source, resetFailed>>

\* loadConfig or the first connectDB failed (no handle), the second connectDB
\* failed (connStats is open), or a table setup failed (both are open):
\* time.Sleep(30 * time.Minute); continue
SetupAbandoned ==
    /\ mainPc = "setup"
    /\ mainPc' = "sleep"
    /\ deltasInCycle' = FALSE
    /\ setupFailed' = cycle
    /\ \E opened \in {<<0, 0>>, <<1, 0>>, <<1, 1>>} :
            handles' = [stats |-> handles.stats + opened[1], dhcp |-> handles.dhcp + opened[2]]
    /\ UNCHANGED <<tables, now, taskPc, clientsLeft, cycle, last, sumDelta, lastObs,
                   oldest, passedThisMonth, scriptPos, taskVars,
                   text, parsed, source, resetFailed>>

NextHandles ==
    \/ ClockAdvance
    \/ SetupOpens
    \/ SetupAbandoned
    \/ ResetOk
    \/ ResetFails
    \/ SpawnTasks
    \/ CycleComplete
    \/ Sleep
    \/ \E r \in Routers : FetchAPNone(r)
    \/ \E r \in Routers : FetchAPClients(r)
    \/ \E r \in Routers : UpdateClient(r)
    \/ \E r \in Routers : UpdateClientFails(r)
    \/ \E r \in Routers : FetchWANNone(r)
    \/ \E r \in Routers : FetchWANData(r)
    \/ \E r \in Routers : UpdateWAN(r)
    \/ \E r \in Routers : UpdateWANFails(r)
    \/ \E r \in Routers : FetchDHCP(r)

SpecHandles == Init /\ [][NextHandles]_vars

\* ------------------------------------------- the accounting calls by themselves
\* The database calls that main and its goroutines make, in the order dbMutex
\* lets them run, with every counter pair a client dump can report.
acctFrame == <<mainVars, oldest, deltasInCycle, scriptPos, taskVars, setupFailed, sideVars>>

Tick ==
    /\ \E t \in Instants : t > now /\ now' = t
    /\ passedThisMonth' = (passedThisMonth /\ MonthIdx(now') = MonthIdx(now))
    /\ UNCHANGED <<tables, last, sumDelta, lastObs, acctFrame>>

ObserveAs(id, newRX, newTX, scanErr) ==
    /\ updateTrafficStats(id, newRX, newTX, scanErr)
    /\ CreditUpdate(id, newRX, newTX, scanErr)
    /\ last' = [op |-> "update", err |-> FALSE, id |-> id,
                newRX |-> newRX, newTX |-> newTX,
                found |-> id \in DOMAIN cumulative_stats,
                scanErr |-> scanErr,
                storedRX |-> IF id \in DOMAIN cumulative_stats
                             THEN cumulative_stats[id].rx_bytes ELSE 0,
                storedTX |-> IF id \in DOMAIN cumulative_stats
                             THEN cumulative_stats[id].tx_bytes ELSE 0,
                monthlyCount |-> IF id \in DOMAIN monthly_stats THEN 1 ELSE 0,
                preRX |-> PreTotal(id)[1],
                preTX |-> PreTotal(id)[2],
                incrementalRX |-> Delta(cumulative_stats, id, newRX, newTX, scanErr)[1],
                incrementalTX |-> Delta(cumulative_stats, id, newRX, newTX, scanErr)[2]]
    /\ UNCHANGED <<now, passedThisMonth, mainVars, oldest, deltasInCycle, taskVars,
                   setupFailed, sideVars>>

Observe ==
    /\ \/ \E mac \in Macs, client \in Vals \X Vals, scanErr \in BOOLEAN :
            ObserveAs(mac, client[1], client[2], scanErr) /\ WithinBounds(mac)
       \/ \E wan \in PollReadings, scanErr \in BOOLEAN :
            ObserveAs(MAIN_WAN, wan[1], wan[2], scanErr) /\ WithinBounds(MAIN_WAN)
    /\ UNCHANGED scriptPos

ObserveFails ==
    /\ \E id \in EntityIDs :
            /\ updateTrafficStatsErr(id)
            /\ last' = [op |-> "update", err |-> TRUE, id |-> id]
    /\ UNCHANGED <<now, sumDelta, lastObs, passedThisMonth, acctFrame>>

ResetPass ==
    /\ resetMonthlyStats
    /\ CreditReset
    /\ last' = [op |-> "reset", err |-> FALSE, fired |-> Fired, again |-> passedThisMonth]
    /\ passedThisMonth' = TRUE
    /\ UNCHANGED <<now, acctFrame>>

ResetPassFails ==
    /\ resetMonthlyStatsErr
    /\ last' = [op |-> "reset", err |-> TRUE]
    /\ UNCHANGED <<now, sumDelta, lastObs, passedThisMonth, acctFrame>>

NextAcct ==
    \/ Tick
    \/ Observe
    \/ ObserveFails
    \/ ResetPass
    \/ ResetPassFails

SpecAcct == Init /\ [][NextAcct]_vars

\* ---------------------------------------------- the lease calls by themselves
\* upsertDHCPLeases called by the goroutines of the routers with every batch a
\* lease dump can parse to, while the clock moves on.
leaseFrame == <<tables, mainVars, pollHist, scriptPos, failed, setupFailed, sideVars>>

LeaseTick ==
    /\ \E t \in Instants : t > now /\ now' = t
    /\ ev' = [op |-> "tick"]
    /\ UNCHANGED <<dhcp_leases, dbMutex, call, passedThisMonth, leaseFrame>>

NextLease ==
    \/ LeaseTick
    \/ \E r \in Routers, leases \in Batches :
            UpsertEmpty(r, leases) /\ UNCHANGED <<now, passedThisMonth, leaseFrame>>
    \/ \E r \in Routers, leases \in Batches :
            UpsertLock(r, leases) /\ UNCHANGED <<now, passedThisMonth, leaseFrame>>
    \/ \E r \in Routers : UpsertBegin(r) /\ UNCHANGED <<now, passedThisMonth, leaseFrame>>
    \/ \E r \in Routers : UpsertExec(r) /\ UNCHANGED <<now, passedThisMonth, leaseFrame>>
    \/ \E r \in Routers : UpsertCommit(r) /\ UNCHANGED <<now, passedThisMonth, leaseFrame>>
    \/ \E r \in Routers : UpsertFails(r) /\ UNCHANGED <<now, passedThisMonth, leaseFrame>>

SpecLease == Init /\ [][NextLease]_vars

\* ------------------------------------ the goroutines, statement by statement
\* One cycle of the polling loop with dbMutex, the open transactions and every
\* outcome of a fetch, a parse and a database call.
Urls == {"", "http://192.168.1.1/cgi-bin/stats.cgi"}

\* ------------------------------------------------------------ the parsers
\* A dump is the sequence of its lines and a line the sequence of its
\* whitespace-separated fields, which is what strings.Fields makes of it; the
\* empty string is the dump without lines and a line without fields is blank.
\* The fields are strings, and what the library tells of a string (its value as
\* a number, its lower-case form, the character class it belongs to) is read
\* off the fields that the modelled dumps hold.
EmptyText == <<>>
BlankLine == <<>>

\* the decimal numerals of the modelled dumps, all within 64 bits
Digits == {ToString(v) : v \in 0..MaxVal}
Numerals == {ToString(v) : v \in (-1)..MaxVal}

\* strconv.ParseInt(s, 10, 64): an optional sign and decimal digits
ParseInt(s) ==
    IF s \in Numerals
    THEN [err |-> "nil", val |-> CHOOSE v \in (-1)..MaxVal : ToString(v) = s]
    ELSE [err |-> "syntax", val |-> 0]

\* strings.ToLower
ToLower(s) ==
    IF s = "AA:BB:CC:DD:EE:FF" THEN "aa:bb:cc:dd:ee:ff"
    ELSE IF s = "11:22:33:44:55:6A" THEN "11:22:33:44:55:6a"
    ELSE s

RECURSIVE TrimLeft(_)
TrimLeft(s) == IF s # <<>> /\ Head(s) = BlankLine THEN TrimLeft(Tail(s)) ELSE s

RECURSIVE TrimRight(_)
TrimRight(s) ==
    IF s # <<>> /\ s[Len(s)] = BlankLine THEN TrimRight(SubSeq(s, 1, Len(s) - 1)) ELSE s

\* strings.TrimSpace of a dump: the blank lines at both ends go
TrimSpace(s) == TrimRight(TrimLeft(s))

\* strings.Split(s, "\n"): the empty string yields one empty line
Split(s) == IF s = EmptyText THEN <<BlankLine>> ELSE s

ClientStats(mac, rx, tx) == [MACAddress |-> mac, RXBytes |-> rx, TXBytes |-> tx]

RECURSIVE WiFiLinesBreak(_, _)
WiFiLinesBreak(lines, clients) ==
    IF lines = <<>>
    THEN clients
    ELSE LET parts == Head(lines)
         IN  IF Len(parts) = 3
             THEN IF ParseInt(parts[2]).err # "nil" \/ ParseInt(parts[3]).err # "nil"
                  THEN clients
                  ELSE WiFiLinesBreak(Tail(lines),
                           Append(clients, ClientStats(ToLower(parts[1]),
                                                       ParseInt(parts[2]).val,
                                                       ParseInt(parts[3]).val)))
             ELSE clients

\* for _, line := range lines { parts := strings.Fields(line) ... }
RECURSIVE WiFiLines(_, _)
WiFiLines(lines, clients) ==
    IF lines = <<>>
    THEN clients
    ELSE LET parts == Head(lines)
         IN  IF Len(parts) = 3
             THEN IF ParseInt(parts[2]).err # "nil"
                  THEN WiFiLines(Tail(lines), clients)
                  ELSE IF ParseInt(parts[3]).err # "nil"
                       THEN WiFiLines(Tail(lines), clients)
                       ELSE WiFiLines(Tail(lines),
                                Append(clients, ClientStats(ToLower(parts[1]),
                                                            ParseInt(parts[2]).val,
                                                            ParseInt(parts[3]).val)))
             ELSE WiFiLines(Tail(lines), clients)

\* parseWiFiStats returns the clients and a nil error
parseWiFiStats(data) ==
    IF data = EmptyText
    THEN [clients |-> <<>>, err |-> "nil"]
    ELSE [clients |-> WiFiLines(Split(TrimSpace(data)), <<>>), err |-> "nil"]

\* the fields of a dump in the order of the text: \s matches a line break too
RECURSIVE Flatten(_)
Flatten(s) == IF s = <<>> THEN <<>> ELSE Head(s) \o Flatten(Tail(s))

\* the digits a field starts with: what (\d+) takes of it
DigitsPrefix(s) ==
    IF s \in Digits
    THEN s
    ELSE IF \E d \in Digits : s = d \o "B" THEN CHOOSE d \in Digits : s = d \o "B" ELSE ""

\* where wan:\s+(\d+)\s+(\d+) matches: a field that ends in "wan:" and two
\* that start with digits
WanMatches(fields) ==
    {i \in 1..(Len(fields) - 2) :
        /\ fields[i] \in {"wan:", "br-wan:"}
        /\ fields[i + 1] \in Digits
        /\ DigitsPrefix(fields[i + 2]) # ""}

WANStats(rx, tx) == [RXBytes |-> rx, TXBytes |-> tx]

FindFirstNever(fields) == {}

\* re.FindStringSubmatch: the leftmost match
FindFirst(fields) ==
    IF WanMatches(fields) = {}
    THEN {}
    ELSE {CHOOSE i \in WanMatches(fields) : \A j \in WanMatches(fields) : i <= j}

\* parseWANStats returns *WANStats (here a sequence of at most one) and an error
parseWANStats(data) ==
    IF data = EmptyText
    THEN [wanStats |-> <<>>, err |-> "nil"]
    ELSE LET fields == Flatten(data)
             match == FindFirst(fields)
         IN  IF match # {}
             THEN LET i == CHOOSE j \in match : TRUE
                      rx == ParseInt(fields[i + 1])
                      tx == ParseInt(DigitsPrefix(fields[i + 2]))
                  IN  IF rx.err # "nil" \/ tx.err # "nil"
                      THEN [wanStats |-> <<>>, err |-> "error parsing WAN bytes"]
                      ELSE [wanStats |-> <<WANStats(rx.val, tx.val)>>, err |-> "nil"]
             ELSE [wanStats |-> <<>>, err |-> "WAN stats pattern not found"]

\* the character classes of ipv4LeasePattern
IsMac(s) == s \in {"aa:bb:cc:dd:ee:ff", "AA:BB:CC:DD:EE:FF", "11:22:33:44:55:6A"}

\* ^(\d+)\s+([0-9a-fA-F:]{17})\s+([\d\.]+)\s+(.*?)\s+([\d0-9a-fA-F:]+)$ on a line
\* whose fields are one blank apart
LeaseMatch(line) ==
    /\ Len(line) >= 5
    /\ line[1] \in Digits
    /\ IsMac(line[2])
    /\ line[3] \in Digits \cup {"192.168.1.10"}
    /\ (IsMac(line[Len(line)]) \/ line[Len(line)] \in Digits \cup {"01:aa"})

HostnameLastWord(hostnameParts) ==
    IF hostnameParts = <<"*">> THEN "Unknown" ELSE hostnameParts[Len(hostnameParts)]

\* hostname == "*" becomes "Unknown", else strings.Fields(hostname)[0]
Hostname(hostnameParts) ==
    IF hostnameParts = <<"*">> THEN "Unknown" ELSE hostnameParts[1]

DHCPLease(line) ==
    [MACAddress |-> ToLower(line[2]), LeaseEndTime |-> ParseInt(line[1]).val,
     IPAddress |-> line[3], Hostname |-> Hostname(SubSeq(line, 4, Len(line) - 1)),
     ClientID |-> line[Len(line)]]

\* for _, line := range lines { match := ipv4LeasePattern.FindStringSubmatch(line) ... }
RECURSIVE LeaseLines(_, _)
LeaseLines(lines, leases) ==
    IF lines = <<>>
    THEN leases
    ELSE IF LeaseMatch(Head(lines))
         THEN IF ParseInt(Head(lines)[1]).err # "nil"
              THEN LeaseLines(Tail(lines), leases)
              ELSE LeaseLines(Tail(lines), Append(leases, DHCPLease(Head(lines))))
         ELSE LeaseLines(Tail(lines), leases)

\* parseDHCPLeases returns the leases and a nil error
parseDHCPLeases(data) ==
    IF data = EmptyText
    THEN [leases |-> <<>>, err |-> "nil"]
    ELSE [leases |-> LeaseLines(Split(TrimSpace(data)), <<>>), err |-> "nil"]

\* what client.Get and ioutil.ReadAll yield for a URL: an error or a body; the
\* bodies a gateway answers with when a goroutine is followed statement by
\* statement are nothing, a line of no expected shape, and a dump of one record
Responses(signal) ==
    LET Bodies ==
            {EmptyText, <<<<"garbage">>>>,
             CASE signal = "ap" -> <<<<"aa:bb:cc:dd:ee:ff", "1", "1">>>>
               [] signal = "wan" -> <<<<"wan:", "1", "1">>>>
               [] signal = "dhcp" ->
                    <<<<"1", "aa:bb:cc:dd:ee:ff", "192.168.1.10", "*", "01:aa">>>>}
    IN  {[err |-> "fetch", body |-> EmptyText]}
            \cup {[err |-> "nil", body |-> b] : b \in Bodies}

fetchDataNoCheck(url, response) ==
    [err |-> IF url = "" THEN "fetch" ELSE response.err,
     body |-> IF url = "" THEN EmptyText ELSE response.body,
     netCall |-> TRUE]

\* if url == "" { return "", ErrURLEmpty }, else the GET
fetchData(url, response) ==
    IF url = ""
    THEN [err |-> "ErrURLEmpty", body |-> EmptyText, netCall |-> FALSE]
    ELSE [err |-> response.err, body |-> response.body, netCall |-> TRUE]

\* the branch main takes on what the parser of a signal returned
Parse(signal, body) ==
    CASE signal = "ap" ->
            IF Len(parseWiFiStats(body).clients) > 0 THEN "records" ELSE "none"
      [] signal = "wan" ->
            IF parseWANStats(body).err # "nil"
            THEN "error"
            ELSE IF parseWANStats(body).wanStats # <<>> THEN "records" ELSE "none"
      [] signal = "dhcp" ->
            IF Len(parseDHCPLeases(body).leases) > 0 THEN "records" ELSE "none"

taskFrame == <<now, mainPc, cycle, pollHist, passedThisMonth, scriptPos, setupFailed, sideVars>>

FetchedRetries(r, signal, url, response, dataPc, nextPc) ==
    LET res == fetchData(url, response)
        outcome == IF res.err # "nil" THEN res.err ELSE Parse(signal, res.body)
    IN  /\ taskPc' = [taskPc EXCEPT ![r] = IF outcome = "records" THEN dataPc
                                           ELSE IF outcome = "fetch" THEN signal
                                           ELSE nextPc]
        /\ failed' = [failed EXCEPT ![r] = @ \/ outcome \in {"fetch", "error"}]
        /\ ev' = [op |-> "fetch", task |-> r, signal |-> signal, url |-> url,
                   outcome |-> outcome, netCall |-> res.netCall,
                   printed |-> outcome \in {"fetch", "error"}]
        /\ UNCHANGED <<tables, dhcp_leases, dbMutex, call, taskFrame>>

\* one signal of a router: fetchData, the parser, and the branch main takes
Fetched(r, signal, url, response, dataPc, nextPc) ==
    LET res == fetchData(url, response)
        outcome == IF res.err # "nil" THEN res.err ELSE Parse(signal, res.body)
    IN  /\ taskPc' = [taskPc EXCEPT ![r] = IF outcome = "records" THEN dataPc ELSE nextPc]
        /\ failed' = [failed EXCEPT ![r] = @ \/ outcome \in {"fetch", "error"}]
        /\ ev' = [op |-> "fetch", task |-> r, signal |-> signal, url |-> url,
                   outcome |-> outcome, netCall |-> res.netCall,
                   printed |-> outcome \in {"fetch", "error"}]
        /\ UNCHANGED <<tables, dhcp_leases, dbMutex, call, taskFrame>>

\* apData, err := fetchData(urls.APStatsURL) ... parseWiFiStats(apData)
TaskAP(r) ==
    /\ taskPc[r] = "ap"
    /\ \E url \in Urls, response \in Responses("ap") :
            Fetched(r, "ap", url, response, "clients", "wan")
    /\ \E n \in 1..MaxRecords :
            clientsLeft' = [clientsLeft EXCEPT ![r] = IF taskPc'[r] = "clients" THEN n ELSE 0]

\* data, err := fetchData(urls.WANStatsURL) ... parseWANStats(data)
TaskWAN(r) ==
    /\ taskPc[r] = "wan"
    /\ \E url \in Urls, response \in Responses("wan") :
            Fetched(r, "wan", url, response, "wanUpdate", "dhcp")
    /\ UNCHANGED clientsLeft

\* data, err := fetchData(urls.DHCPLeasesURL) ... parseDHCPLeases(data)
TaskDHCP(r) ==
    /\ taskPc[r] = "dhcp"
    /\ \E url \in Urls, response \in Responses("dhcp") :
            Fetched(r, "dhcp", url, response, "leases", "done")
    /\ UNCHANGED clientsLeft

\* the goroutine goes on after updateTrafficStats has returned
Returned(r) ==
    IF taskPc[r] = "clients"
    THEN AfterClient(r)
    ELSE taskPc' = [taskPc EXCEPT ![r] = "dhcp"] /\ UNCHANGED clientsLeft

TaskUpdLock(r) ==
    /\ \/ /\ taskPc[r] = "clients"
          /\ \E mac \in Macs, client \in PollReadings : UpdLock(r, mac, client[1], client[2])
       \/ /\ taskPc[r] = "wanUpdate"
          /\ \E wan \in PollReadings : UpdLock(r, MAIN_WAN, wan[1], wan[2])
    /\ UNCHANGED <<taskPc, clientsLeft, dhcp_leases, failed, taskFrame>>

TaskUpdRead(r) ==
    /\ \E scanErr \in BOOLEAN : UpdRead(r, scanErr)
    /\ UNCHANGED <<taskPc, clientsLeft, dhcp_leases, failed, taskFrame>>

TaskUpdInsert(r) ==
    /\ UpdInsert(r)
    /\ UNCHANGED <<taskPc, clientsLeft, dhcp_leases, failed, taskFrame>>

TaskUpdCommit(r) ==
    /\ UpdCommit(r)
    /\ WithinBounds(call[r].id)
    /\ Returned(r)
    /\ UNCHANGED <<dhcp_leases, failed, taskFrame>>

\* the error is printed and the goroutine goes on
TaskUpdFails(r) ==
    /\ UpdFails(r)
    /\ Returned(r)
    /\ failed' = [failed EXCEPT ![r] = TRUE]
    /\ UNCHANGED <<dhcp_leases, taskFrame>>

\* main calls upsertDHCPLeases only when len(leases) > 0
TaskUpsertLock(r) ==
    /\ taskPc[r] = "leases"
    /\ \E leases \in {b \in Batches : Len(b) = 1} : UpsertLock(r, leases)
    /\ UNCHANGED <<tables, taskPc, clientsLeft, failed, taskFrame>>

TaskUpsertBegin(r) ==
    /\ UpsertBegin(r)
    /\ UNCHANGED <<tables, taskPc, clientsLeft, failed, taskFrame>>

TaskUpsertExec(r) ==
    /\ UpsertExec(r)
    /\ UNCHANGED <<tables, taskPc, clientsLeft, failed, taskFrame>>

\* after the lease signal the goroutine ends: the deferred wg.Done()
TaskUpsertCommit(r) ==
    /\ UpsertCommit(r)
    /\ taskPc' = [taskPc EXCEPT ![r] = "done"]
    /\ UNCHANGED <<tables, clientsLeft, failed, taskFrame>>

TaskUpsertFails(r) ==
    /\ UpsertFails(r)
    /\ taskPc' = [taskPc EXCEPT ![r] = "done"]
    /\ failed' = [failed EXCEPT ![r] = TRUE]
    /\ UNCHANGED <<tables, clientsLeft, taskFrame>>

\* loadConfig ... setupDHCPDB succeeded; var dbMutex sync.Mutex
SetupDone ==
    /\ mainPc = "setup"
    /\ mainPc' = NextMainPc("setup")
    /\ dbMutex' = Unlocked
    /\ failed' = [r \in Routers |-> FALSE]
    /\ ev' = [op |-> "setup"]
    /\ UNCHANGED <<tables, now, taskPc, clientsLeft, cycle, pollHist, passedThisMonth,
                   scriptPos, dhcp_leases, call, setupFailed, sideVars>>

\* resetMonthlyStats: mutex.Lock()
ResetLock ==
    /\ mainPc = "reset"
    /\ CanLock(dbMutex)
    /\ dbMutex' = LockDeferUnlock("main")
    /\ mainPc' = "resetting"
    /\ ev' = [op |-> "reset", outcome |-> "locked"]
    /\ UNCHANGED <<tables, now, taskPc, clientsLeft, cycle, pollHist, passedThisMonth,
                   scriptPos, dhcp_leases, call, failed, setupFailed, sideVars>>

\* resetMonthlyStats returns nil (or an error, which main prints), mutex.Unlock()
ResetReturns ==
    /\ mainPc = "resetting"
    /\ \/ resetMonthlyStats /\ ev' = [op |-> "reset", outcome |-> "done"]
       \/ resetMonthlyStatsErr /\ ev' = [op |-> "reset", outcome |-> "error"]
    /\ dbMutex' = Unlock(dbMutex)
    /\ mainPc' = NextMainPc("reset")
    /\ UNCHANGED <<now, taskPc, clientsLeft, cycle, pollHist, passedThisMonth, scriptPos,
                   dhcp_leases, call, failed, setupFailed, sideVars>>

\* the statements of the goroutine of router r
TaskNext(r) ==
    \/ TaskAP(r) \/ TaskWAN(r) \/ TaskDHCP(r)
    \/ TaskUpdLock(r) \/ TaskUpdRead(r) \/ TaskUpdInsert(r) \/ TaskUpdCommit(r)
    \/ TaskUpdFails(r)
    \/ TaskUpsertLock(r) \/ TaskUpsertBegin(r) \/ TaskUpsertExec(r) \/ TaskUpsertCommit(r)
    \/ TaskUpsertFails(r)

NextTasks ==
    \/ SetupDone
    \/ SetupFails
    \/ ResetLock
    \/ ResetReturns
    \/ SpawnTasks
    \/ CycleComplete
    \/ \E r \in Routers : TaskAP(r)
    \/ \E r \in Routers : TaskWAN(r)
    \/ \E r \in Routers : TaskDHCP(r)
    \/ \E r \in Routers : TaskUpdLock(r)
    \/ \E r \in Routers : TaskUpdRead(r)
    \/ \E r \in Routers : TaskUpdInsert(r)
    \/ \E r \in Routers : TaskUpdCommit(r)
    \/ \E r \in Routers : TaskUpdFails(r)
    \/ \E r \in Routers : TaskUpsertLock(r)
    \/ \E r \in Routers : TaskUpsertBegin(r)
    \/ \E r \in Routers : TaskUpsertExec(r)
    \/ \E r \in Routers : TaskUpsertCommit(r)
    \/ \E r \in Routers : TaskUpsertFails(r)

SpecTasks == Init /\ [][NextTasks]_vars

\* ------------------------------------------ the goroutines and their gateways
\* The same cycle with the position of a goroutine inside fetchData: between
\* client.Get(url) and its return the goroutine waits on the gateway, for as
\* long as the gateway and the ten-second timeout let it.
GetPc(pc) == pc \o "Get"

\* the goroutines that wait on a gateway
InFetch == {r \in Routers : taskPc[r] \in {GetPc(pc) : pc \in {"ap", "wan", "dhcp"}}}

netFrame == <<tables, now, mainPc, clientsLeft, cycle, pollHist, passedThisMonth, scriptPos,
              taskVars, setupFailed, sideVars>>

NetGetLocked(r) ==
    /\ taskPc[r] \in {"ap", "wan", "dhcp"}
    /\ CanLock(dbMutex)
    /\ taskPc' = [taskPc EXCEPT ![r] = GetPc(taskPc[r])]
    /\ dbMutex' = LockDeferUnlock(r)
    /\ UNCHANGED <<tables, now, mainPc, clientsLeft, cycle, pollHist, passedThisMonth,
                   scriptPos, dhcp_leases, call, ev, failed, setupFailed, sideVars>>

\* resp, err := client.Get(url): the request is out, the goroutine waits
NetGet(r) ==
    /\ taskPc[r] \in {"ap", "wan", "dhcp"}
    /\ taskPc' = [taskPc EXCEPT ![r] = GetPc(taskPc[r])]
    /\ UNCHANGED netFrame

\* fetchData returns: at once for an empty URL, with what the gateway or the
\* timeout yields otherwise
NetFetched(r, signal, dataPc, nextPc) ==
    \/ /\ taskPc[r] = signal
       /\ \E response \in Responses(signal) : Fetched(r, signal, "", response, dataPc, nextPc)
    \/ /\ taskPc[r] = GetPc(signal)
       /\ \E url \in Urls \ {""}, response \in Responses(signal) :
                Fetched(r, signal, url, response, dataPc, nextPc)

\* the three fetches of a goroutine, each followed by its parser
NetReturns(r) ==
    \/ /\ NetFetched(r, "ap", "clients", "wan")
       /\ \E n \in 1..MaxRecords :
            clientsLeft' = [clientsLeft EXCEPT ![r] = IF taskPc'[r] = "clients" THEN n ELSE 0]
    \/ NetFetched(r, "wan", "wanUpdate", "dhcp") /\ UNCHANGED clientsLeft
    \/ NetFetched(r, "dhcp", "leases", "done") /\ UNCHANGED clientsLeft

\* the statements of the goroutine of router r
NetTaskNext(r) ==
    \/ NetGet(r) \/ NetReturns(r)
    \/ TaskUpdLock(r) \/ TaskUpdRead(r) \/ TaskUpdInsert(r) \/ TaskUpdCommit(r)
    \/ TaskUpdFails(r)
    \/ TaskUpsertLock(r) \/ TaskUpsertBegin(r) \/ TaskUpsertExec(r) \/ TaskUpsertCommit(r)
    \/ TaskUpsertFails(r)

\* the statements of main
NetMainNext ==
    \/ SetupDone
    \/ SetupFails
    \/ ResetLock
    \/ ResetReturns
    \/ SpawnTasks
    \/ CycleComplete

NextNet ==
    \/ SetupDone
    \/ SetupFails
    \/ ResetLock
    \/ ResetReturns
    \/ SpawnTasks
    \/ CycleComplete
    \/ \E r \in Routers : NetGet(r)
    \/ \E r \in Routers : NetReturns(r)
    \/ \E r \in Routers : TaskUpdLock(r)
    \/ \E r \in Routers : TaskUpdRead(r)
    \/ \E r \in Routers : TaskUpdInsert(r)
    \/ \E r \in Routers : TaskUpdCommit(r)
    \/ \E r \in Routers : TaskUpdFails(r)
    \/ \E r \in Routers : TaskUpsertLock(r)
    \/ \E r \in Routers : TaskUpsertBegin(r)
    \/ \E r \in Routers : TaskUpsertExec(r)
    \/ \E r \in Routers : TaskUpsertCommit(r)
    \/ \E r \in Routers : TaskUpsertFails(r)

SpecNet == Init /\ [][NextNet]_vars

\* every fetch returns and the scheduler lets each goroutine that can run take
\* its next statement
SpecNetFair ==
    /\ SpecNet
    /\ WF_vars(NetMainNext)
    /\ \A r \in Routers : WF_vars(NetTaskNext(r))

\* ------------------------------------------------- the parsers by themselves
\* Each parser applied to every dump of up to MaxLines lines over the lines below.
DumpLines(fn) ==
    CASE fn = "parseWiFiStats" ->
            {<<"AA:BB:CC:DD:EE:FF", "1", "0">>, <<"aa:bb:cc:dd:ee:ff", "0", "1">>,
             <<"aa:bb:cc:dd:ee:ff", "-1", "0">>, <<"aa:bb:cc:dd:ee:ff", "x", "1">>,
             <<"aa:bb:cc:dd:ee:ff", "1", "x">>, <<"aa:bb:cc:dd:ee:ff", "1">>, BlankLine}
      [] fn = "parseWANStats" ->
            {<<"wan:", "1", "0">>, <<"br-wan:", "0", "1B">>, <<"lan:", "1", "1">>,
             <<"wan:", "-1", "1">>, <<"wan:", "1">>, <<"1">>, BlankLine}
      [] fn = "parseDHCPLeases" ->
            {<<"1", "AA:BB:CC:DD:EE:FF", "192.168.1.10", "*", "01:aa">>,
             <<"1", "aa:bb:cc:dd:ee:ff", "192.168.1.10", "phone", "(guest)", "01:aa">>,
             <<"0", "11:22:33:44:55:6A", "192.168.1.10", "*", "x", "01:aa">>,
             <<"1", "aa:bb:cc:dd:ee:ff", "192.168.1.10", "01:aa">>,
             <<"x", "aa:bb:cc:dd:ee:ff", "192.168.1.10", "*", "01:aa">>,
             <<"garbage">>, BlankLine}

parseFrame == <<tables, now, mainVars, pollHist, passedThisMonth, scriptPos, taskVars,
                setupFailed, source, resetFailed, handles>>

\* the dump is meant for parser fn and that parser has not run yet
Pending(fn) == parsed = NoResult \/ (parsed.fn = fn /\ ~parsed.done)

\* the dump that a parser is to be given grows by one line
ReadLine ==
    /\ Len(text) < MaxLines
    /\ \E fn \in {"parseWiFiStats", "parseWANStats", "parseDHCPLeases"} :
            /\ Pending(fn)
            /\ \E line \in DumpLines(fn) : text' = Append(text, line)
            /\ parsed' = [fn |-> fn, done |-> FALSE]
    /\ UNCHANGED parseFrame

ParseWiFi ==
    /\ Pending("parseWiFiStats")
    /\ parsed' = [fn |-> "parseWiFiStats", done |-> TRUE, result |-> parseWiFiStats(text)]
    /\ UNCHANGED <<text, parseFrame>>

ParseWAN ==
    /\ Pending("parseWANStats")
    /\ parsed' = [fn |-> "parseWANStats", done |-> TRUE, result |-> parseWANStats(text)]
    /\ UNCHANGED <<text, parseFrame>>

ParseLeases ==
    /\ Pending("parseDHCPLeases")
    /\ parsed' = [fn |-> "parseDHCPLeases", done |-> TRUE,
                  result |-> parseDHCPLeases(text)]
    /\ UNCHANGED <<text, parseFrame>>

NextParse ==
    \/ ReadLine
    \/ ParseWiFi
    \/ ParseWAN
    \/ ParseLeases

SpecParse == Init /\ [][NextParse]_vars

\* ------------------------------------- the traffic signals of one goroutine
\* The goroutine of one router, cycle after cycle at one instant: what it
\* fetches is parsed, and what the parser returns is what updateTrafficStats is
\* called with.  A database call is one step.
FlowRouter == "192.168.1.1"

\* the lines of the dumps a gateway answers with here
FlowDumpLines(fn) ==
    IF fn = "parseWiFiStats"
    THEN {<<"AA:BB:CC:DD:EE:FF", "1", "0">>, <<"aa:bb:cc:dd:ee:ff", "0", "1">>,
          <<"aa:bb:cc:dd:ee:ff", "-1", "0">>, <<"aa:bb:cc:dd:ee:ff", "x", "1">>,
          <<"main_wan", "1", "0">>}
    ELSE {<<"wan:", "1", "0">>, <<"br-wan:", "0", "1B">>, <<"wan:", "-1", "1">>}

\* a failed fetch, or a dump of up to MaxRecords lines
FlowResponses(fn) ==
    {[err |-> "fetch", body |-> EmptyText]}
        \cup {[err |-> "nil", body |-> b] :
                    b \in UNION {[1..n -> FlowDumpLines(fn)] : n \in 0..MaxRecords}}

flowFrame == <<now, mainPc, clientsLeft, cycle, pollHist, passedThisMonth, scriptPos,
               taskVars, setupFailed, source, resetFailed, handles>>

\* the model follows a monthly total between -MaxTotal and MaxTotal
FlowBounds(id) ==
    /\ monthly_stats'[id].rx_bytes \in (-MaxTotal)..MaxTotal
    /\ monthly_stats'[id].tx_bytes \in (-MaxTotal)..MaxTotal

\* go func(ip string, urls RouterConfig) of the next cycle
FlowStart ==
    /\ taskPc[FlowRouter] \in {"idle", "done"}
    /\ taskPc' = [taskPc EXCEPT ![FlowRouter] = "ap"]
    /\ text' = EmptyText
    /\ parsed' = NoResult
    /\ UNCHANGED <<tables, flowFrame>>

\* fetchData and, when it returned no error, the parser fn
FlowFetch(fn, url, response) ==
    LET res == fetchData(url, response)
    IN  /\ text' = res.body
        /\ parsed' = IF res.err # "nil"
                     THEN [fn |-> "fetchData", done |-> TRUE, applied |-> 0,
                           result |-> [err |-> res.err]]
                     ELSE [fn |-> fn, done |-> TRUE, applied |-> 0,
                           result |-> IF fn = "parseWiFiStats"
                                      THEN parseWiFiStats(res.body)
                                      ELSE parseWANStats(res.body)]
        /\ UNCHANGED <<tables, flowFrame>>

\* apData, err := fetchData(urls.APStatsURL) ... clients, err := parseWiFiStats(apData)
FlowAP ==
    /\ taskPc[FlowRouter] = "ap"
    /\ \E url \in Urls, response \in FlowResponses("parseWiFiStats") :
            FlowFetch("parseWiFiStats", url, response)
    /\ taskPc' = [taskPc EXCEPT ![FlowRouter] =
                    IF parsed'.fn = "parseWiFiStats" /\ Len(parsed'.result.clients) > 0
                    THEN "clients" ELSE "wan"]

\* for _, client := range clients { updateTrafficStats(..., client.MACAddress, ...) }
FlowClient ==
    /\ taskPc[FlowRouter] = "clients"
    /\ LET client == parsed.result.clients[parsed.applied + 1]
       IN  \/ /\ \E scanErr \in BOOLEAN :
                    updateTrafficStats(client.MACAddress, client.RXBytes, client.TXBytes,
                                       scanErr)
              /\ FlowBounds(client.MACAddress)
           \/ updateTrafficStatsErr(client.MACAddress)
    /\ parsed' = [parsed EXCEPT !.applied = @ + 1]
    /\ taskPc' = [taskPc EXCEPT ![FlowRouter] =
                    IF parsed'.applied = Len(parsed.result.clients) THEN "wan" ELSE "clients"]
    /\ UNCHANGED <<text, flowFrame>>

\* wanData, err := fetchData(urls.WANStatsURL) ... wan, err := parseWANStats(wanData)
FlowWAN ==
    /\ taskPc[FlowRouter] = "wan"
    /\ \E url \in Urls, response \in FlowResponses("parseWANStats") :
            FlowFetch("parseWANStats", url, response)
    /\ taskPc' = [taskPc EXCEPT ![FlowRouter] =
                    IF /\ parsed'.fn = "parseWANStats"
                       /\ parsed'.result.err = "nil"
                       /\ parsed'.result.wanStats # <<>>
                    THEN "wanUpdate" ELSE "dhcp"]

\* updateTrafficStats(connStats, &dbMutex, "main_wan", wan.RXBytes, wan.TXBytes)
FlowWanUpdate ==
    /\ taskPc[FlowRouter] = "wanUpdate"
    /\ LET wan == parsed.result.wanStats[1]
       IN  \/ /\ \E scanErr \in BOOLEAN :
                    updateTrafficStats(MAIN_WAN, wan.RXBytes, wan.TXBytes, scanErr)
              /\ FlowBounds(MAIN_WAN)
           \/ updateTrafficStatsErr(MAIN_WAN)
    /\ parsed' = [parsed EXCEPT !.applied = @ + 1]
    /\ taskPc' = [taskPc EXCEPT ![FlowRouter] = "dhcp"]
    /\ UNCHANGED <<text, flowFrame>>

NextFlow ==
    \/ FlowStart
    \/ FlowAP
    \/ FlowClient
    \/ FlowWAN
    \/ FlowWanUpdate
    \/ FetchDHCP(FlowRouter)

SpecFlow == Init /\ [][NextFlow]_vars

\* ------------------------------------------ one interface and its polls
\* The WAN interface of one gateway counts the bytes it receives and sends, the
\* gateway restarts now and then, which sets both counters to 0, and the
\* goroutine polls the counters; no month boundary passes.
sourceFrame == <<now, passedThisMonth, mainVars, oldest, deltasInCycle, scriptPos, taskVars,
                 setupFailed, text, parsed, resetFailed, handles>>

\* the interface counts one more byte
SourceCounts ==
    /\ \/ /\ source.rx < MaxVal
          /\ source.countedRX < MaxTotal
          /\ source' = [source EXCEPT !.rx = @ + 1, !.countedRX = @ + 1]
       \/ /\ source.tx < MaxVal
          /\ source.countedTX < MaxTotal
          /\ source' = [source EXCEPT !.tx = @ + 1, !.countedTX = @ + 1]
    /\ UNCHANGED <<tables, pollHist, sourceFrame>>

\* the gateway restarts
SourceRestarts ==
    /\ source.restarts < MaxRestarts
    /\ source' = [source EXCEPT !.rx = 0, !.tx = 0, !.restarts = @ + 1]
    /\ UNCHANGED <<tables, pollHist, sourceFrame>>

\* updateTrafficStats(connStats, &dbMutex, "main_wan", wan.RXBytes, wan.TXBytes)
SourcePolled ==
    /\ \E scanErr \in BOOLEAN : ObserveAs(MAIN_WAN, source.rx, source.tx, scanErr)
    /\ WithinBounds(MAIN_WAN)
    /\ UNCHANGED scriptPos

\* the fetch, the parse or the update of a poll failed
SourcePollFails ==
    /\ updateTrafficStatsErr(MAIN_WAN)
    /\ last' = [op |-> "update", err |-> TRUE, id |-> MAIN_WAN]
    /\ UNCHANGED <<sumDelta, lastObs, oldest, deltasInCycle, source, sourceFrame>>

NextSource ==
    \/ SourceCounts
    \/ SourceRestarts
    \/ SourcePolled
    \/ SourcePollFails

SpecSource == Init /\ [][NextSource]_vars

\* ------------------------------------------------- the four-observation scenario
\* One client reported four times in a row within one calendar month, while the
\* uplink is polled and reset passes run in between.
ScenarioMac == "aa:bb:cc:dd:ee:ff"
Script == <<(<<100, 50>>), (<<250, 80>>), (<<60, 90>>), (<<200, 150>>)>>

ScriptObserve ==
    /\ scriptPos < Len(Script)
    /\ \E scanErr \in BOOLEAN :
            ObserveAs(ScenarioMac, Script[scriptPos + 1][1], Script[scriptPos + 1][2], scanErr)
    /\ scriptPos' = scriptPos + 1

ObserveWan ==
    /\ \E wan \in PollReadings, scanErr \in BOOLEAN :
            ObserveAs(MAIN_WAN, wan[1], wan[2], scanErr) /\ WithinBounds(MAIN_WAN)
    /\ UNCHANGED scriptPos

NextScenario ==
    \/ ScriptObserve
    \/ ObserveWan
    \/ ObserveFails
    \/ ResetPass
    \/ ResetPassFails

SpecScenario == Init /\ [][NextScenario]_vars

\* ------------------------------------------------------------- properties
Updated == last.op = "update" /\ ~last.err
ResetRan == last.op = "reset" /\ ~last.err

\* C1: every monthly row holds exactly the componentwise sum of the deltas the
\* committed calls computed for its entity since the table was last zeroed (or
\* since the row was created); no other step adds to it or takes from it.
C1_MonthlyIsSumOfDeltas ==
    /\ DOMAIN sumDelta = DOMAIN monthly_stats
    /\ \A id \in DOMAIN monthly_stats :
          /\ monthly_stats[id].rx_bytes = sumDelta[id][1]
          /\ monthly_stats[id].tx_bytes = sumDelta[id][2]

\* two or more deltas have accumulated in one row
C1_Witness ==
    /\ Updated
    /\ last.preRX > 0
    /\ last.incrementalRX > 0
    /\ monthly_stats[last.id].rx_bytes = last.preRX + last.incrementalRX

\* C2: a committed call given an observation that is, in both directions, at
\* least the stored cumulative value adds exactly observed - stored to the
\* monthly row and stores the observation as the new cumulative value.
C2_DeltaIsDifference ==
    (Updated /\ last.found /\ last.newRX >= last.storedRX /\ last.newTX >= last.storedTX)
    => /\ monthly_stats[last.id].rx_bytes = last.preRX + (last.newRX - last.storedRX)
       /\ monthly_stats[last.id].tx_bytes = last.preTX + (last.newTX - last.storedTX)
       /\ cumulative_stats[last.id].rx_bytes = last.newRX
       /\ cumulative_stats[last.id].tx_bytes = last.newTX

\* C3: a direction whose observed counter is below the stored one is credited
\* with the whole observed counter, whatever the other direction does.
C3_ResetPerDirection ==
    (Updated /\ last.found)
    => /\ last.newRX < last.storedRX
            => /\ last.incrementalRX = last.newRX
               /\ monthly_stats[last.id].rx_bytes = last.preRX + last.newRX
       /\ last.newTX < last.storedTX
            => /\ last.incrementalTX = last.newTX
               /\ monthly_stats[last.id].tx_bytes = last.preTX + last.newTX

\* the receive counter went back while the transmit counter went on
C3_Witness ==
    /\ Updated
    /\ last.found
    /\ last.newRX < last.storedRX
    /\ last.newTX > last.storedTX
    /\ last.incrementalTX = last.newTX - last.storedTX

\* C4: for an entity without a cumulative row the delta is the observation
\* itself; the monthly row is created as (0, 0) and then credited, so both
\* rows equal the observation after the call.
C4_FirstObservation ==
    (Updated /\ ~last.found)
    => /\ last.incrementalRX = last.newRX
       /\ last.incrementalTX = last.newTX
       /\ last.monthlyCount = 0
       /\ last.preRX = 0
       /\ last.preTX = 0
       /\ monthly_stats[last.id].rx_bytes = last.newRX
       /\ monthly_stats[last.id].tx_bytes = last.newTX
       /\ cumulative_stats[last.id].rx_bytes = last.newRX
       /\ cumulative_stats[last.id].tx_bytes = last.newTX

\* a first observation with traffic in one direction and none in the other
C4_Witness ==
    /\ Updated
    /\ ~last.found
    /\ last.newRX > 0
    /\ last.newTX = 0
    /\ monthly_stats[last.id].rx_bytes = last.newRX

\* C5: the observations (100,50), (250,80), (60,90), (200,150) of one client,
\* applied to empty tables within one month, yield the deltas (100,50),
\* (150,30), (60,90), (140,60), the monthly total (450,230) and the cumulative
\* counter (200,150).
ScriptDeltas == <<(<<100, 50>>), (<<150, 30>>), (<<60, 90>>), (<<140, 60>>)>>

C5_Scenario ==
    /\ (Updated /\ last.id = ScenarioMac /\ scriptPos >= 1)
          => <<last.incrementalRX, last.incrementalTX>> = ScriptDeltas[scriptPos]
    /\ scriptPos = Len(Script)
          => /\ monthly_stats[ScenarioMac].rx_bytes = 450
             /\ monthly_stats[ScenarioMac].tx_bytes = 230
             /\ cumulative_stats[ScenarioMac].rx_bytes = 200
             /\ cumulative_stats[ScenarioMac].tx_bytes = 150

\* C6: the cumulative row of every entity is the observation of the last
\* committed call for it, whichever branch computed the delta.
C6_CumulativeIsLastObservation ==
    /\ DOMAIN cumulative_stats = DOMAIN lastObs
    /\ \A id \in DOMAIN cumulative_stats :
          <<cumulative_stats[id].rx_bytes, cumulative_stats[id].tx_bytes>> = lastObs[id]

\* a smaller observation has replaced a larger stored counter
C6_Witness ==
    /\ Updated
    /\ last.found
    /\ last.newRX < last.storedRX
    /\ cumulative_stats[last.id].rx_bytes = last.newRX

\* C7: once the reset pass of a cycle has returned nil in month M, no monthly
\* row holds traffic that was added in a month before M.
C7_NoTrafficOfEarlierMonths ==
    ResetRan
    => \A id \in DOMAIN monthly_stats :
          oldest[id] = NoTraffic \/ oldest[id] >= last.month

\* the instant a stored timestamp was written at, and its calendar month
StampInstant(str) == (str[1] * MonthsPerYear + (str[2] - 1)) * TicksPerMonth + str[3]

NewestInstant(tbl) ==
    CHOOSE i \in {StampInstant(tbl[id].timestamp) : id \in DOMAIN tbl} :
        \A j \in {StampInstant(tbl[id].timestamp) : id \in DOMAIN tbl} : j <= i

ResetIsDue ==
    /\ DOMAIN monthly_stats # {}
    /\ MonthIdx(NewestInstant(monthly_stats)) # MonthIdx(now)

\* a step in which a reset pass returned
ResetStep == last'.op = "reset" /\ now' = now

\* C8: a reset pass that returns nil zeroes the totals exactly when the newest
\* timestamp of the table lies in another calendar month or year than the
\* current time; it then gives every row rx = 0, tx = 0 and the current time in
\* one step, and otherwise (also on an empty table) changes no row.
C8_ResetExactlyWhenDue ==
    [][(ResetStep /\ ~last'.err)
        => IF ResetIsDue
           THEN /\ DOMAIN monthly_stats' = DOMAIN monthly_stats
                /\ \A id \in DOMAIN monthly_stats :
                      monthly_stats'[id] =
                          [rx_bytes |-> 0, tx_bytes |-> 0, timestamp |-> Format(now)]
           ELSE monthly_stats' = monthly_stats]_vars

\* a reset pass has zeroed two rows that held traffic
C8_Witness ==
    /\ ResetRan
    /\ last.fired
    /\ Cardinality(DOMAIN monthly_stats) = 2
    /\ \A id \in DOMAIN monthly_stats :
          /\ monthly_stats[id].rx_bytes = 0
          /\ monthly_stats[id].tx_bytes = 0
          /\ monthly_stats[id].timestamp = Format(now)
    /\ \E id \in DOMAIN cumulative_stats : cumulative_stats[id].rx_bytes > 0

\* C9: when the reset pass of a cycle runs, no delta of that cycle has been
\* applied to any entity by any goroutine.
C9_ResetBeforeDeltas ==
    [][(mainPc = "reset" /\ mainPc' # "reset") => ~deltasInCycle]_vars

\* a delta of the second cycle was applied after that cycle's reset pass
C9_Witness ==
    /\ cycle = 2
    /\ mainPc = "wait"
    /\ deltasInCycle
    /\ Updated

\* C10: a reset pass that runs after another one returned nil, with no month
\* boundary in between, changes no rx, tx or timestamp of any monthly row.
C10_SecondPassIsNoOp ==
    [][(ResetStep /\ passedThisMonth) => monthly_stats' = monthly_stats]_vars

\* a second pass of the month has run over rows that hold traffic
C10_Witness ==
    /\ ResetRan
    /\ last.again
    /\ \E id \in DOMAIN monthly_stats : monthly_stats[id].rx_bytes > 0

\* ------------------------------------------------- goroutine properties
\* a step in which a goroutine statement with this outcome ran
Event(op, outcome) == ev' # ev /\ ev'.op = op /\ ev'.outcome = outcome

Happened(op, outcome) == ev.op = op /\ ev.outcome = outcome

\* C11: every call of updateTrafficStats that commits changes the two tables
\* exactly as the whole call run in one piece on the tables it finds when it
\* commits, which are the tables the call before it (of either goroutine)
\* left; no statement before the commit changes a table.  The calls of two
\* goroutines for one entity therefore act one after the other.
C11_CallsActOneAfterTheOther ==
    [][/\ Event("update", "committed")
            => /\ monthly_stats' = MonthlyAfterUpdate(cumulative_stats, monthly_stats, ev'.id,
                                        ev'.newRX, ev'.newTX, ev'.scanErr, now)
               /\ cumulative_stats' = CumulativeUpsert(cumulative_stats, ev'.id,
                                                       ev'.newRX, ev'.newTX)
       /\ (ev' # ev /\ ev'.op = "update" /\ ev'.outcome # "committed")
            => tables' = tables]_vars

\* both goroutines reported the same uplink counter in the first cycle: the
\* second call found the row of the first and added nothing
C11_Witness ==
    /\ cycle = 1
    /\ Happened("update", "committed")
    /\ ev.id = MAIN_WAN
    /\ ev.monthlyCount = 1
    /\ ~ev.scanErr
    /\ ev.lastRX = 1 /\ ev.newRX = 1 /\ ev.incrementalRX = 0
    /\ monthly_stats[MAIN_WAN].rx_bytes = 1
    /\ cumulative_stats[MAIN_WAN].rx_bytes = 1

\* C12: at most one of main and the goroutines is between mutex.Lock() and
\* the return of resetMonthlyStats, updateTrafficStats or upsertDHCPLeases,
\* and it is the one dbMutex names.
C12_OneWriterAtATime ==
    /\ Cardinality(InCall) <= 1
    /\ \A r \in InCall : dbMutex = r
    /\ mainPc = "resetting" => InCall = {} /\ dbMutex = "main"
    /\ dbMutex = "main" => mainPc = "resetting"

\* one goroutine is inside updateTrafficStats while the other stands before
\* upsertDHCPLeases
C12_Witness ==
    \E r \in Routers : \E o \in Routers :
        /\ r # o
        /\ call[r].op = "update" /\ call[r].pc = "write"
        /\ dbMutex = r
        /\ taskPc[o] = "leases" /\ call[o].op = "none"

\* C13: main leaves wg.Wait() only when every goroutine it started has ended;
\* while main is at any other place of its loop no goroutine is running, no
\* table changes but by main's own reset pass, and a new cycle starts with
\* no goroutine left over.
C13_CycleWaitsForTasks ==
    /\ [](mainPc # "wait" => \A r \in Routers : taskPc[r] = "idle")
    /\ [][/\ (mainPc = "wait" /\ mainPc' # "wait") => (\A r \in Routers : taskPc[r] = "done")
          /\ (tables' # tables) => (mainPc \in {"wait", "reset"})
          /\ (cycle' # cycle) => (\A r \in Routers : taskPc[r] = "idle")]_vars

\* the second cycle has begun after a first one in which an update failed and
\* others were committed
C13_Witness ==
    /\ cycle = 2
    /\ mainPc = "setup"
    /\ last.op = "update" /\ last.err
    /\ DOMAIN cumulative_stats = EntityIDs
    /\ \A r \in Routers : taskPc[r] = "idle"

\* C14: a statement of one goroutine, whatever its outcome, leaves the
\* position, the open call and the pending records of every other goroutine
\* and the position of main alone, and a failed one changes no table; a
\* goroutine that is in no call does not hold dbMutex; and a goroutine that has
\* not ended can always take its next statement, or waits for dbMutex while the
\* holder can take its own.
C14_SourceIsolation ==
    /\ [](\A r \in Routers :
            /\ dbMutex = r => call[r].op # "none"
            /\ (mainPc = "wait" /\ taskPc[r] # "done")
                 => \/ ENABLED TaskNext(r)
                    \/ \E o \in Routers \ {r} : dbMutex = o /\ ENABLED TaskNext(o))
    /\ [][(ev' # ev /\ ev'.op \in {"fetch", "update", "upsert"})
            => /\ mainPc' = mainPc
               /\ \A o \in Routers \ {ev'.task} :
                      /\ taskPc'[o] = taskPc[o]
                      /\ call'[o] = call[o]
                      /\ clientsLeft'[o] = clientsLeft[o]
                      /\ failed'[o] = failed[o]
               /\ ev'.outcome \in {"fetch", "error"}
                      => tables' = tables /\ dhcp_leases' = dhcp_leases]_vars

\* one goroutine had errors and has ended, and the other has gone through its
\* three signals without one and committed its leases last
C14_Witness ==
    \E r \in Routers : \E o \in Routers :
        /\ r # o
        /\ failed[r] /\ taskPc[r] = "done"
        /\ ~failed[o] /\ taskPc[o] = "done"
        /\ Happened("upsert", "committed") /\ ev.task = o
        /\ MAIN_WAN \in DOMAIN cumulative_stats
        /\ mainPc = "wait"

\* the signal a position of the goroutine belongs to
Phase(pc) ==
    CASE pc = "idle" -> 0
      [] pc \in {"ap", "clients"} -> 1
      [] pc \in {"wan", "wanUpdate"} -> 2
      [] pc \in {"dhcp", "leases"} -> 3
      [] pc = "done" -> 4

\* C15: a goroutine goes through the client, the WAN and the lease signal in
\* this order and, whatever the outcome of a statement, either stays in its
\* signal or goes on to the fetch of the next one; a fetch with an empty URL
\* yields ErrURLEmpty (and only it does), makes no network call, prints no
\* error, marks no failure and changes no table and no call.
C15_SignalIsolation ==
    [][/\ \A r \in Routers :
              (taskPc'[r] # taskPc[r] /\ mainPc' = mainPc)
              => \/ Phase(taskPc'[r]) = Phase(taskPc[r])
                 \/ /\ Phase(taskPc'[r]) = Phase(taskPc[r]) + 1
                    /\ taskPc'[r] \in {"wan", "dhcp", "done"}
       /\ (ev' # ev /\ ev'.op = "fetch")
              => /\ (ev'.url = "") <=> (ev'.outcome = "ErrURLEmpty")
                 /\ ev'.url = ""
                       => /\ ~ev'.netCall
                          /\ ~ev'.printed
                          /\ failed' = failed
                          /\ tables' = tables
                          /\ dhcp_leases' = dhcp_leases
                          /\ call' = call]_vars

\* a goroutine whose client signal failed found no WAN URL and went on to its
\* lease signal
C15_Witness ==
    /\ Happened("fetch", "ErrURLEmpty")
    /\ ev.signal = "wan"
    /\ failed[ev.task]
    /\ taskPc[ev.task] = "dhcp"

\* C16: a call of updateTrafficStats that returns an error, at whichever
\* statement, leaves both tables as they were, the monthly row it may have
\* inserted included; the goroutine notes the error and goes on with the next
\* client record of the dump, or with the next signal.
C16_FailedUpdateChangesNothing ==
    [][Event("update", "error")
        => /\ tables' = tables
           /\ failed'[ev'.task]
           /\ taskPc[ev'.task] = "clients"
                 => /\ clientsLeft'[ev'.task] = clientsLeft[ev'.task] - 1
                    /\ taskPc'[ev'.task] = IF clientsLeft[ev'.task] > 1 THEN "clients" ELSE "wan"
           /\ taskPc[ev'.task] = "wanUpdate" => taskPc'[ev'.task] = "dhcp"]_vars

\* the call failed after it had inserted the monthly row of a new client: the
\* row is gone, another entity has its rows, and a client record is still to do
C16_Witness ==
    /\ Happened("update", "error")
    /\ ev.pc = "write"
    /\ ev.monthlyCount = 0
    /\ ev.id \notin DOMAIN monthly_stats
    /\ ev.id \notin DOMAIN cumulative_stats
    /\ MAIN_WAN \in DOMAIN monthly_stats
    /\ taskPc[ev.task] = "clients"
    /\ clientsLeft[ev.task] = 1

\* C20: in a cycle whose setup failed main does nothing but sleep: the step
\* that fails changes no table and starts no goroutine, no reset pass and no
\* goroutine runs and no table changes before the next cycle, and the sleep ends
\* in the setup of the next cycle, which goes its own way.
C20_FailedSetupSkipsCycle ==
    /\ [](setupFailed = cycle
            => /\ mainPc = "sleep"
               /\ \A r \in Routers : taskPc[r] = "idle"
               /\ ~deltasInCycle)
    /\ [][/\ (setupFailed = cycle \/ setupFailed' = cycle) => (tables' = tables)
          /\ (mainPc = "sleep" /\ mainPc' # "sleep")
                => (mainPc' = "setup" /\ cycle' = cycle + 1)]_vars

\* the setup of the first cycle failed with all tables empty, and the second
\* cycle has reset and committed an update
C20_Witness ==
    /\ setupFailed = 1
    /\ cycle = 2
    /\ mainPc = "wait"
    /\ Updated
    /\ deltasInCycle
    /\ last.id \in DOMAIN monthly_stats

\* ------------------------------------------------------ lease properties
UpsertStep(outcome) == ev'.op = "upsert" /\ ev'.outcome = outcome

UpsertDone(outcome) == ev.op = "upsert" /\ ev.outcome = outcome

\* the addresses a batch names, and the last record it holds for one of them
BatchMacs(leases) == {leases[i].MACAddress : i \in 1..Len(leases)}

LastOf(leases, mac) ==
    leases[CHOOSE i \in 1..Len(leases) :
              /\ leases[i].MACAddress = mac
              /\ \A j \in (i + 1)..Len(leases) : leases[j].MACAddress # mac]

\* C17: a call of upsertDHCPLeases with no lease returns at once: it changes
\* no row and no timestamp of dhcp_leases, does not take dbMutex and opens no
\* transaction; no step of the function other than that return ever works on
\* an empty batch.
C17_EmptyBatchIsNoOp ==
    [][(ev'.op = "upsert" /\ Len(ev'.leases) = 0)
        => /\ ev'.outcome = "empty"
           /\ dhcp_leases' = dhcp_leases
           /\ dbMutex' = dbMutex
           /\ call' = call]_vars

\* an empty batch was turned away while the table held rows and the other
\* goroutine was inside its own call, holding dbMutex
C17_Witness ==
    /\ UpsertDone("empty")
    /\ dhcp_leases # {}
    /\ dbMutex \in Routers
    /\ dbMutex # ev.task
    /\ call[dbMutex].op = "upsert"

\* C18 as stated: after a committed call every record of the batch is a row of
\* the table, with the timestamp of the batch.
C18_EveryRecordStored ==
    UpsertDone("committed")
    => \A i \in 1..Len(ev.leases) : LeaseRow(ev.leases[i], ev.timestamp) \in dhcp_leases

\* C18, amended: the call that commits leaves, for every address of the batch,
\* the last record the batch holds for it, all with one timestamp, and every
\* other row as it was; a call that returns an error leaves the table as it
\* was; and no statement before the commit changes the table, so no prefix of
\* a batch is ever visible.
C18_BatchAllOrNothing ==
    [][/\ UpsertStep("committed")
            => \E ts \in {Format(t) : t \in Instants} :
                  dhcp_leases' =
                      {x \in dhcp_leases : x.mac_address \notin BatchMacs(ev'.leases)}
                      \cup {LeaseRow(LastOf(ev'.leases, mac), ts) : mac \in BatchMacs(ev'.leases)}
       /\ ~UpsertStep("committed") => dhcp_leases' = dhcp_leases]_vars

\* a batch of two addresses was committed after the clock had moved on during
\* the call, and both rows carry the timestamp taken when the call began
C18_Witness ==
    /\ UpsertDone("committed")
    /\ Cardinality(BatchMacs(ev.leases)) = 2
    /\ ev.timestamp # Format(now)
    /\ \A i \in 1..Len(ev.leases) : LeaseRow(ev.leases[i], ev.timestamp) \in dhcp_leases

OneRowPerMac ==
    \A x \in dhcp_leases : \A y \in dhcp_leases : x.mac_address = y.mac_address => x = y

\* C19: the table never holds two rows of one MAC address; a committed batch
\* leaves for each of its addresses a row that is, field by field, one record
\* of that batch; rows of addresses the batch does not name stay as they are;
\* and no step removes the row of an address.
C19_OneRowPerMac ==
    /\ []OneRowPerMac
    /\ [][/\ UpsertStep("committed")
               => /\ \A mac \in BatchMacs(ev'.leases) :
                         \E y \in dhcp_leases' :
                             /\ y.mac_address = mac
                             /\ y = LeaseRow(LastOf(ev'.leases, mac), ev'.timestamp)
                  /\ \A x \in dhcp_leases :
                         x.mac_address \notin BatchMacs(ev'.leases) => x \in dhcp_leases'
          /\ \A x \in dhcp_leases : \E y \in dhcp_leases' : y.mac_address = x.mac_address]_vars

\* a newer lease of one address has replaced its row, address, host name and
\* expiry alike, while the row of an address the batch did not name is older
C19_Witness ==
    /\ UpsertDone("committed")
    /\ BatchMacs(ev.leases) = {"aa:bb:cc:dd:ee:ff"}
    /\ LeaseRow(Lease("aa:bb:cc:dd:ee:ff", 2, "192.168.2.10", "Unknown"), ev.timestamp)
           \in dhcp_leases
    /\ \E x \in dhcp_leases :
           /\ x.mac_address = "11:22:33:44:55:66"
           /\ x.timestamp # ev.timestamp
    /\ Cardinality(dhcp_leases) = 2

\* ------------------------------------------------------------ the parsers
\* a line of three fields whose second and third are numbers
WellFormed(line) == Len(line) = 3 /\ line[2] \in Numerals /\ line[3] \in Numerals

\* the place in the dump of the i-th well-formed line
KeptLine(s, i) ==
    CHOOSE k \in 1..Len(s) :
        WellFormed(s[k]) /\ Cardinality({j \in 1..k : WellFormed(s[j])}) = i

HasWanPattern(s) == WanMatches(Flatten(s)) # {}

\* the row of id as a sequence: empty when the table has none
Row(tbl, id) == IF id \in DOMAIN tbl THEN <<tbl[id]>> ELSE <<>>

\* the goroutine has fetched the WAN dump and parseWANStats has returned
WanParsed ==
    /\ taskPc[FlowRouter] = "wan"
    /\ taskPc'[FlowRouter] # "wan"
    /\ parsed'.fn = "parseWANStats"

LowerCase == {"aa:bb:cc:dd:ee:ff", "11:22:33:44:55:6a"}

\* the place in the dump of the i-th line of the lease shape
KeptLease(s, i) ==
    CHOOSE k \in 1..Len(s) :
        LeaseMatch(s[k]) /\ Cardinality({j \in 1..k : LeaseMatch(s[j])}) = i

\* C23: parseDHCPLeases returns one lease for each line of the lease shape, in
\* the order of the dump, whatever lines of another shape stand before, between
\* or after them; the hostname of a lease is "Unknown" when the hostname field
\* is exactly "*" and the first word of the hostname field otherwise, and its
\* MAC is in lower case.
C23_LeaseLines ==
    (parsed.fn = "parseDHCPLeases" /\ parsed.done) =>
        LET leases == parsed.result.leases
        IN  /\ parsed.result.err = "nil"
            /\ Len(leases) = Cardinality({j \in 1..Len(text) : LeaseMatch(text[j])})
            /\ \A i \in 1..Len(leases) :
                    LET line == text[KeptLease(text, i)]
                        hostname == SubSeq(line, 4, Len(line) - 1)
                    IN  /\ leases[i].Hostname
                                = IF hostname = <<"*">> THEN "Unknown" ELSE hostname[1]
                        /\ leases[i].MACAddress \in LowerCase
                        /\ leases[i].IPAddress = line[3]
                        /\ leases[i].ClientID = line[Len(line)]

\* a "*" lease with an upper-case MAC, a line of no lease shape, and a lease
\* whose hostname field has two words
C23_Witness ==
    /\ parsed.fn = "parseDHCPLeases"
    /\ parsed.done
    /\ Len(text) = 3
    /\ text[1] = <<"1", "AA:BB:CC:DD:EE:FF", "192.168.1.10", "*", "01:aa">>
    /\ text[2] = <<"garbage">>
    /\ text[3] = <<"1", "aa:bb:cc:dd:ee:ff", "192.168.1.10", "phone", "(guest)", "01:aa">>
    /\ Len(parsed.result.leases) = 2
    /\ parsed.result.leases[1].Hostname = "Unknown"
    /\ parsed.result.leases[1].MACAddress = "aa:bb:cc:dd:ee:ff"
    /\ parsed.result.leases[2].Hostname = "phone"

\* ------------------------------------------------- a failed cumulative read
\* C24: a call of updateTrafficStats whose read of the cumulative row failed
\* with an error other than sql.ErrNoRows returns an error and changes no row:
\* no call that returned nil had such a read, took (0, 0) for the prior value
\* of an entity with a cumulative row, and added the whole observed value.
C24_FailedReadIsAnError ==
    (last.op = "update" /\ ~last.err) =>
        /\ ~last.scanErr
        /\ last.found =>
                /\ last.incrementalRX = Incremental(last.newRX, last.storedRX)
                /\ last.incrementalTX = Incremental(last.newTX, last.storedTX)

\* ------------------------------------------------------ a failed reset pass
\* what the step added to the deltas credited to the row of id
Credited(id) ==
    IF id \in DOMAIN sumDelta
    THEN <<sumDelta'[id][1] - sumDelta[id][1], sumDelta'[id][2] - sumDelta[id][2]>>
    ELSE sumDelta'[id]

\* C25: when resetMonthlyStats returns an error the cycle goes on: the pass has
\* changed no row, every goroutine is started and has ended when the cycle
\* completes, and each delta of the cycle is added to what the row held before,
\* the row being stamped with the current time.
C25_FailedResetKeepsCycle ==
    /\ [][(mainPc = "reset" /\ mainPc' # "reset" /\ last'.op = "reset" /\ last'.err)
            => (tables' = tables /\ mainPc' = "spawn")]_vars
    /\ [][(resetFailed /\ mainPc = "spawn" /\ mainPc' # "spawn")
            => (mainPc' = "wait" /\ \A r \in Routers : taskPc'[r] = "ap")]_vars
    /\ [][(resetFailed /\ mainPc = "wait" /\ mainPc' # "wait")
            => (\A r \in Routers : taskPc[r] = "done")]_vars
    /\ [][(resetFailed /\ tables' # tables)
            => \E id \in EntityIDs :
                /\ last'.op = "update" /\ ~last'.err /\ last'.id = id
                /\ monthly_stats'[id]
                        = [rx_bytes |-> PreTotal(id)[1] + Credited(id)[1],
                           tx_bytes |-> PreTotal(id)[2] + Credited(id)[2],
                           timestamp |-> Format(now)]
                /\ \A o \in DOMAIN monthly_stats \ {id} :
                        monthly_stats'[o] = monthly_stats[o]]_vars

\* the reset pass of the second cycle failed after the month had changed, and a
\* goroutine of that cycle has added a delta to a total of the month before
C25_Witness ==
    /\ resetFailed
    /\ deltasInCycle
    /\ mainPc = "wait"
    /\ \A r \in Routers : taskPc[r] = "done"
    /\ \E id \in DOMAIN monthly_stats :
        /\ monthly_stats[id].rx_bytes = 2
        /\ monthly_stats[id].timestamp = Format(now)
        /\ oldest[id] # NoTraffic
        /\ oldest[id] < MonthIdx(now)

\* ------------------------------------------- what the reset pass leaves alone
\* C26: the reset pass changes only rx, tx and timestamp of the monthly rows
\* there are: it changes no cumulative row and creates or deletes no row, so the
\* delta of the first call after a pass that zeroed the totals is the observed
\* value minus the cumulative value stored before the pass, not the whole
\* observed value, for an entity whose counter has not gone down; and no
\* operation takes an entity id out of the cumulative or the monthly table.
C26_ResetLeavesCumulative ==
    /\ [][ResetStep =>
            /\ cumulative_stats' = cumulative_stats
            /\ DOMAIN monthly_stats' = DOMAIN monthly_stats]_vars
    /\ [][/\ DOMAIN cumulative_stats \subseteq DOMAIN cumulative_stats'
          /\ DOMAIN monthly_stats \subseteq DOMAIN monthly_stats']_vars
    /\ [][(/\ ResetRan
           /\ last.fired
           /\ last'.op = "update"
           /\ ~last'.err
           /\ last'.id \in DOMAIN cumulative_stats)
            => LET stored == cumulative_stats[last'.id]
               IN  /\ last'.newRX >= stored.rx_bytes
                        => last'.incrementalRX = last'.newRX - stored.rx_bytes
                   /\ last'.newTX >= stored.tx_bytes
                        => last'.incrementalTX = last'.newTX - stored.tx_bytes]_vars

\* ----------------------------------------------------- the restart policy
\* C29: for an entity that one source reports, whose counters only go up and
\* restart at 0, and with no month reset in between, the deltas credited to the
\* entity never sum to more than the bytes the source has counted, and sum to
\* exactly that when the source has not restarted and all it counted was polled.
C29_NeverOverestimates ==
    MAIN_WAN \in DOMAIN sumDelta =>
        /\ sumDelta[MAIN_WAN][1] <= source.countedRX
        /\ sumDelta[MAIN_WAN][2] <= source.countedTX
        /\ (/\ source.restarts = 0
            /\ cumulative_stats[MAIN_WAN] = [rx_bytes |-> source.rx, tx_bytes |-> source.tx])
                => sumDelta[MAIN_WAN] = <<source.countedRX, source.countedTX>>

\* ------------------------------------------------------- unsigned counts
\* C30: whatever client dump parseWiFiStats accepts and whatever WAN dump
\* parseWANStats accepts, no delta is negative: while no reset pass runs no
\* monthly rx or tx total goes down, and every value stored in a monthly or a
\* cumulative row is at least 0.
C30_CountsNeverNegative ==
    /\ [](/\ \A id \in DOMAIN cumulative_stats :
                cumulative_stats[id].rx_bytes >= 0 /\ cumulative_stats[id].tx_bytes >= 0
          /\ \A id \in DOMAIN monthly_stats :
                monthly_stats[id].rx_bytes >= 0 /\ monthly_stats[id].tx_bytes >= 0)
    /\ [][\A id \in DOMAIN monthly_stats :
            /\ monthly_stats'[id].rx_bytes >= monthly_stats[id].rx_bytes
            /\ monthly_stats'[id].tx_bytes >= monthly_stats[id].tx_bytes]_vars

\* -------------------------------------------------- the mutex and the network
\* C27: a goroutine that waits on a gateway inside fetchData neither holds
\* dbMutex nor is inside a database call, so whoever holds the mutex is not
\* waiting on a gateway.
C27_NoLockAcrossFetch ==
    /\ dbMutex \notin InFetch
    /\ \A r \in InFetch : call[r] = NoCall

\* one goroutine waits on its gateway while another is in its transaction
C27_Witness ==
    \E r \in InFetch, o \in Routers :
        /\ o # r
        /\ dbMutex = o
        /\ call[o].op = "update" /\ call[o].pc = "write"
        /\ taskPc[r] = GetPc("wan")

\* ------------------------------------------------------ the cycle completes
\* C28: when every fetch returns and the scheduler is fair, a cycle whose reset
\* pass main has reached ends: main gets past wg.Wait() to its sleep, which it
\* does only when every goroutine has reached its wg.Done() and the mutex is
\* free, and a goroutine that has ended stays ended until main has passed the
\* barrier.
C28_CycleCompletes ==
    /\ (mainPc = "reset") ~> (mainPc = "sleep")
    /\ [][\A r \in Routers :
            /\ (taskPc[r] = "done" /\ taskPc'[r] # "done")
                    => (mainPc = "wait" /\ mainPc' = "sleep" /\ taskPc'[r] = "idle")
            /\ (mainPc = "wait" /\ mainPc' # "wait")
                    => (taskPc[r] = "done" /\ dbMutex = Unlocked)]_vars

\* the cycle is over after one goroutine had an error returned to it while the
\* other waited for the mutex, and an update was committed
C28_Witness ==
    /\ mainPc = "sleep"
    /\ \E r \in Routers : failed[r]
    /\ cumulative_stats # <<>>
    /\ dbMutex = Unlocked

\* ------------------------------------------------------ the rows of an entity
\* C31: in what is committed an entity has a row in cumulative_stats exactly
\* when it has one in monthly_stats, and a step that gives an entity its rows
\* is the commit of one update, which writes both rows of that entity and no
\* row of another.
C31_RowsComeTogether ==
    /\ [](DOMAIN cumulative_stats = DOMAIN monthly_stats)
    /\ [][(cumulative_stats' # cumulative_stats \/ DOMAIN monthly_stats' # DOMAIN monthly_stats)
            => /\ ev'.op = "update" /\ ev'.outcome = "committed"
               /\ ev'.id \in DOMAIN cumulative_stats' \cap DOMAIN monthly_stats'
               /\ \A o \in EntityIDs \ {ev'.id} :
                    /\ (o \in DOMAIN cumulative_stats') = (o \in DOMAIN cumulative_stats)
                    /\ o \in DOMAIN cumulative_stats
                            => /\ cumulative_stats'[o] = cumulative_stats[o]
                               /\ monthly_stats'[o] = monthly_stats[o]]_vars

\* an update of an entity without rows has failed after its monthly row was
\* written, while another entity has its rows
C31_Witness ==
    /\ ev.op = "update" /\ ev.outcome = "error" /\ ev.pc = "write"
    /\ ev.monthlyCount = 0
    /\ ev.id \notin DOMAIN monthly_stats
    /\ DOMAIN cumulative_stats # {}

\* ------------------------------------------------------- the reserved id
\* C32: no record of a client dump leads to an update of the rows of main_wan,
\* and every id in the tables other than main_wan is a MAC address in lower case.
C32_MainWanReserved ==
    /\ [][taskPc[FlowRouter] = "clients"
            => /\ Row(cumulative_stats', MAIN_WAN) = Row(cumulative_stats, MAIN_WAN)
               /\ Row(monthly_stats', MAIN_WAN) = Row(monthly_stats, MAIN_WAN)]_vars
    /\ [](\A id \in DOMAIN cumulative_stats \cup DOMAIN monthly_stats :
                id = MAIN_WAN \/ id \in LowerCase)

\* ------------------------------------------------------------- no retry
\* the order in which a goroutine passes its positions in one cycle
Rank(pc) ==
    LET order == <<"idle", "ap", "apGet", "clients", "wan", "wanGet", "wanUpdate",
                   "dhcp", "dhcpGet", "leases", "done">>
    IN  CHOOSE k \in 1..Len(order) : order[k] = pc

\* C33: in one cycle a goroutine never comes back to a fetch it has made, so
\* each URL is fetched at most once; a fetch that fails changes no table and
\* takes the goroutine to its next signal, past the place where the data of
\* the failed signal would have been applied.
C33_NoRetry ==
    [][\A r \in Routers :
        /\ (taskPc'[r] # taskPc[r] /\ taskPc[r] # "done")
                => Rank(taskPc'[r]) > Rank(taskPc[r])
        /\ (r \in InFetch /\ taskPc'[r] # taskPc[r])
                => (ev'.op = "fetch" /\ ev'.task = r /\ ev'.netCall
                        /\ taskPc[r] = GetPc(ev'.signal))
        /\ (r \in InFetch /\ taskPc'[r] # taskPc[r] /\ ev'.outcome = "fetch")
                => /\ tables' = tables
                   /\ dhcp_leases' = dhcp_leases
                   /\ taskPc'[r] = CASE ev'.signal = "ap" -> "wan"
                                      [] ev'.signal = "wan" -> "dhcp"
                                      [] ev'.signal = "dhcp" -> "done"]_vars

\* the WAN fetch of a goroutine has just failed on the network while main_wan
\* has the rows another goroutine gave it, and the goroutine is at its lease signal
C33_Witness ==
    /\ ev.op = "fetch" /\ ev.outcome = "fetch" /\ ev.netCall /\ ev.signal = "wan"
    /\ taskPc[ev.task] = "dhcp"
    /\ MAIN_WAN \in DOMAIN cumulative_stats

\* ----------------------------------------------------- the database handles
\* C34: at every moment at most one handle of network_stats.db and at most one
\* of dhcp_leases.db is open, whatever number of cycles has run and however
\* they ended.
C34_HandlesClosed == handles.stats <= 1 /\ handles.dhcp <= 1

====
